---- MODULE Spec2Model ----
(***************************************************************************)
(* Model of the fetch/crawl orchestration engine of financial_scraper:     *)
(*   - FetchClient.fetch / _do_fetch with RobotChecker and DomainThrottler *)
(*     (specification SpecFetch: the tasks started by one fetch_batch),    *)
(*   - Checkpoint and ScraperPipeline.run / CrawlPipeline.run              *)
(*     (specifications SpecRun, SpecRunLive).                              *)
(***************************************************************************)
EXTENDS Integers, Sequences, FiniteSets, TLC

(***************************************************************************)
(* Bounds of the model.                                                    *)
(***************************************************************************)
\* number of fetch tasks started by one fetch_batch call
NumTasks == 2
\* max_concurrent_per_domain of the configuration under test
MaxPerDomain == 1
\* max_concurrent_total of the configuration under test
MaxConcurrentTotal == 1

\* number of runs of the pipeline against the same files
MaxRuns == 2
\* number of work units in the queries file
NumQueries == 2

\* number of report_success / report_failure calls made on the throttlers
MaxCalls == 5
\* number of frontier levels, each fetched with its own DomainThrottler
MaxLevels == 2
\* number of mark_seen calls made on the Deduplicator
MaxMarks == 2

(***************************************************************************)
(* Program constants.                                                      *)
(***************************************************************************)
\* len(ALL_FINGERPRINTS)
NumFingerprints == 5
\* DomainThrottler(max_delay=30.0)
MaxDelay == 30

\* the absent value (Python None) of an optional number
NONE == -1

(***************************************************************************)
(* The URLs handed to fetch_batch.  Task k fetches urls[k].  A URL is a    *)
(* record of its domain (urlparse(url).netloc.lower()) and its path; path  *)
(* 1 is the page a robots.txt may disallow, path 2 ends with ".pdf".       *)
(***************************************************************************)
Tasks == 1..NumTasks

Domains == {"a", "b"}

Url(d, p) == [domain |-> d, path |-> p]

\* a URL urlparse rejects ("http://[", ValueError: Invalid IPv6 URL)
BadUrl == Url("[", 0)

\* the batches under test: all URLs on one domain, alternating domains, or
\* a malformed URL first
Batches ==
  { [t \in Tasks |-> Url("a", t)],
    [t \in Tasks |-> Url(IF t % 2 = 1 THEN "a" ELSE "b", t)],
    [t \in Tasks |-> IF t = 1 THEN BadUrl ELSE Url("a", t)] }

\* hash(domain) % len(ALL_FINGERPRINTS): "a" falls on the last profile
\* (its successor wraps around), "b" on the first one
HashOf(d) == IF d = "a" THEN NumFingerprints - 1 ELSE 0

\* HTTP statuses a GET may answer; 0 stands for a transport exception
Statuses == {200, 403, 429, 500, 0}

\* Retry-After header values: absent, "0", "40", an HTTP date
RetryAfterHeaders == {"", "0", "40", "Wed, 21 Oct 2026 07:28:00 GMT"}

VARIABLES
  \* ---- FetchClient / DomainThrottler / RobotChecker (SpecFetch) ----
  respect_robots,  \* config.respect_robots
  urls,            \* the list handed to fetch_batch
  pc,              \* position of each fetch task
  fp,              \* index in ALL_FINGERPRINTS of the task's current profile
  gets,            \* per task: fingerprint indices of the GETs of its URL
  resps,           \* per task: statuses answered to those GETs
  bodyFail,        \* per task: reading the body of the last answer raised
  allowedRes,      \* per task: result of RobotChecker.is_allowed
  result,          \* per task: the FetchResult returned
  acquired,        \* per task: completions of DomainThrottler.acquire
  released,        \* per task: calls of DomainThrottler.release
  cache,           \* RobotChecker._cache: origin -> parser
  robotsGets,      \* per origin: GETs of robots.txt issued
  semaphores,      \* DomainThrottler._semaphores: domain -> free slots
  limiters,        \* DomainThrottler._limiters: domains with a limiter
  extra_delays,    \* DomainThrottler._extra_delays: domain -> seconds
  globalFree,      \* FetchClient._global_semaphore: free slots
  out              \* the list fetch_batch returned

VARIABLES
  \* ---- Checkpoint / ScraperPipeline.run (SpecRun) ----
  runs,            \* number of the current run of the pipeline
  config,          \* ScraperConfig: resume, reset_queries, crawl, crawl_depth
  queries,         \* the lines of the queries file
  files,           \* the file system: checkpoint path and its .tmp sibling
  rpc,             \* position of run()
  after,           \* where Checkpoint.save() returns to
  qi,              \* index of the current work unit
  ckpt,            \* the Checkpoint instance
  dedup,           \* the Deduplicator instance
  exclusions,      \* self._exclusions
  domain_page_counts, \* self._domain_page_counts
  urls_to_fetch,   \* the frontier level being fetched
  k,               \* index of the outcome being processed
  current_depth,   \* depth of the frontier level
  next_depth_urls, \* the next frontier level
  all_seen_urls,   \* URLs fetched or queued for the unit
  all_records,     \* records accepted for the unit
  written,         \* rows of the output file of the current run
  \* ---- history of the current run ----
  doneAtStart,     \* units the checkpoint file lists when the run starts
  loadedDone,      \* units completed in memory once start-up is over
  searched,        \* units the searcher was called for
  fetchedFor,      \* units fetch_batch was called for
  skipped,         \* units skipped as already done
  processed,       \* units whose processing finished
  raised,          \* units whose search call raised
  returned,        \* units whose mark_query_done call returned
  snap,            \* the Checkpoint state when that call last returned
  saving           \* the save() in progress: state on disk before, state saved

VARIABLES
  \* ---- DomainThrottler called directly (SpecThrottle) ----
  throttler,       \* the DomainThrottler: max_delay, _extra_delays
  tlevel,          \* number of the frontier level the throttler serves
  tcalls,          \* report_success / report_failure calls made so far
  tlast,           \* the last call: operation, arguments, delay before it
  \* ---- Deduplicator called directly (SpecDedup) ----
  dd,              \* the Deduplicator
  dd_file,         \* the file Deduplicator.save wrote
  dd2,             \* a fresh Deduplicator after load() of that file
  marked,          \* the (url, content) pairs mark_seen returned for
  \* ---- DDGSearcher called directly (SpecSearch) ----
  consecutive_ratelimits, \* DDGSearcher._consecutive_ratelimits
  searches,        \* number of search() calls made
  last_search      \* the last call: counter before, attempts, result, sleeps

fvars == <<respect_robots, urls, pc, fp, gets, resps, bodyFail, allowedRes, result,
           acquired, released, cache, robotsGets, semaphores, limiters,
           extra_delays, globalFree, out>>

\* the unit-local variables of run()
uvars == <<urls_to_fetch, k, current_depth, next_depth_urls, all_seen_urls,
           all_records>>

\* the history of the current run
hvars == <<doneAtStart, loadedDone, searched, fetchedFor, skipped, processed,
           raised, returned, snap, saving>>

pvars == <<runs, config, queries, files, rpc, after, qi, ckpt, dedup,
           exclusions, domain_page_counts, written, uvars, hvars>>

tvars == <<throttler, tlevel, tcalls, tlast>>

dvars == <<dd, dd_file, dd2, marked>>

\* the variables of the objects called directly
svars == <<consecutive_ratelimits, searches, last_search>>

xvars == <<tvars, dvars, svars>>

vars == <<fvars, pvars, xvars>>

(***************************************************************************)
(* Seconds as exact dyadic rationals <<n, d>> = n/d (d a power of two):    *)
(* every float the throttler computes from 1.0 by *2, *1.5, *1.25, /2 and  *)
(* min(.., max_delay) is exactly such a number.                            *)
(***************************************************************************)
RECURSIVE Norm(_, _)
Norm(n, d) == IF d > 1 /\ n % 2 = 0 THEN Norm(n \div 2, d \div 2) ELSE <<n, d>>

Secs(n) == <<n, 1>>

Times(x, n, d) == Norm(x[1] * n, x[2] * d)

Leq(x, y) == x[1] * y[2] <= y[1] * x[2]

\* min(x, y)
MinSecs_NoCap(x, y) == x

MinSecs(x, y) == IF Leq(x, y) THEN x ELSE y

MaxSecs(x, y) == IF Leq(x, y) THEN y ELSE x

(***************************************************************************)
(* DomainThrottler                                                         *)
(***************************************************************************)
\* _get_limiter: create the limiter and the semaphore on first touch
GetLimiterSems(sems, d) ==
  IF d \in DOMAIN sems THEN sems ELSE sems @@ (d :> MaxPerDomain)

\* asyncio.Semaphore.acquire proceeds only when the value is positive
SemCanAcquire_NoWait(free) == TRUE

SemCanAcquire(free) == free > 0

\* release: if domain in self._semaphores: self._semaphores[domain].release()
Release_Forgotten(sems, d) == sems

Release(sems, d) ==
  IF d \in DOMAIN sems THEN [sems EXCEPT ![d] = @ + 1] ELSE sems

\* report_success: halve the extra delay (only for a known domain)
ReportSuccess_Clear(delays, d) ==
  IF d \in DOMAIN delays THEN [delays EXCEPT ![d] = Secs(0)] ELSE delays

ReportSuccess(delays, d) ==
  IF d \in DOMAIN delays
    THEN [delays EXCEPT ![d] = MaxSecs(Secs(0), Times(@, 1, 2))]
    ELSE delays

\* self._extra_delays[domain] = v
SetDelay_All(delays, d, v) == [x \in DOMAIN delays \cup {d} |-> v]

SetDelay(delays, d, v) ==
  IF d \in DOMAIN delays THEN [delays EXCEPT ![d] = v] ELSE delays @@ (d :> v)

\* the optional float retry_after in seconds
RetrySecs(retry_after) == Secs(retry_after)

\* report_failure(domain, status, retry_after) of a throttler whose
\* max_delay is the given number of seconds
report_failure(delays, d, status, retry_after, max_delay) ==
  LET current == IF d \in DOMAIN delays /\ delays[d][1] # 0
                   THEN delays[d] ELSE Secs(1)
  IN  IF status = 429
        THEN IF retry_after # NONE
               THEN SetDelay(delays, d, MinSecs(RetrySecs(retry_after), max_delay))
               ELSE SetDelay(delays, d, MinSecs(Times(current, 2, 1), max_delay))
      ELSE IF status = 403
        THEN SetDelay(delays, d, MinSecs(Times(current, 3, 2), max_delay))
      ELSE IF status >= 500
        THEN SetDelay(delays, d, MinSecs(Times(current, 5, 4), max_delay))
      ELSE delays

\* report_failure of the throttler the pipeline constructs (max_delay=30.0)
ReportFailure(delays, d, status, retry_after) ==
  report_failure(delays, d, status, retry_after, Secs(MaxDelay))

\* acquire: extra = self._extra_delays.get(domain, 0)
DelayOf(delays, d) == IF d \in DOMAIN delays THEN delays[d] ELSE Secs(0)

(***************************************************************************)
(* RobotChecker                                                            *)
(***************************************************************************)
\* the permissive sentinel (None) cached on any robots.txt failure
NoParser == [parsed |-> FALSE, disallow |-> {}]

\* a parsed robots.txt disallowing the given URLs
Parser(dis) == [parsed |-> TRUE, disallow |-> dis]

\* the robots.txt files an origin may serve: allow all, or disallow path 1
RobotsFiles == {{}, {1}}

\* is_allowed, once the origin is cached: parser.can_fetch(user_agent, url)
IsAllowed(c, u) ==
  IF ~c[u.domain].parsed THEN TRUE ELSE u.path \notin c[u.domain].disallow

(***************************************************************************)
(* FetchClient                                                             *)
(***************************************************************************)
\* a FetchResult: status, error ("" stands for None, any other value for a
\* str), html and content_bytes ("none" stands for None)
NoResult ==
  [status |-> NONE, error |-> "", html |-> "none", content_bytes |-> "none"]

RobotsDenied ==
  [status |-> 0, error |-> "robots.txt disallowed", html |-> "none",
   content_bytes |-> "none"]

\* "application/pdf" in ct or url.lower().endswith(".pdf")
IsPdf(u) == u.path = 2

\* FetchResult of a 200 answer: bytes for a PDF, decoded text otherwise
Success_Both(u) ==
  [status |-> 200, error |-> "", html |-> "text", content_bytes |-> "bytes"]

Success(u) ==
  IF IsPdf(u)
    THEN [status |-> 200, error |-> "", html |-> "none", content_bytes |-> "bytes"]
    ELSE [status |-> 200, error |-> "", html |-> "text", content_bytes |-> "none"]

\* FetchResult(status=resp.status, error=f"HTTP {resp.status}")
HttpError(status) ==
  [status |-> status, error |-> "HTTP", html |-> "none", content_bytes |-> "none"]

\* FetchResult(status=0, error=str(e))
TransportError ==
  [status |-> 0, error |-> "exception", html |-> "none", content_bytes |-> "none"]

\* asyncio.Semaphore(config.max_concurrent_total): entered when positive
GlobalCanAcquire_NoWait(free) == TRUE

GlobalCanAcquire(free) == free > 0

\* _do_fetch(..., retry=True) retries, the recursive call (retry=False) not
ShouldRetry_Always(retry) == TRUE

ShouldRetry(retry) == retry

\* fetch step 1: the early return taken when robots.txt disallows the URL
RobotsBlocks_Ignored(respect, allowed) == FALSE

RobotsBlocks(respect, allowed) == respect /\ ~allowed

\* float(retry_after) if retry_after and retry_after.isdigit() else None
ParseRetryAfter(h) ==
  IF h = "0" THEN 0 ELSE IF h = "40" THEN 40 ELSE NONE

\* resp.status in (403, 429)
IsBlocked(status) == status \in {403, 429}

\* idx = (ALL_FINGERPRINTS.index(fp) + 1) % len(ALL_FINGERPRINTS)
NextFingerprint(idx) == (idx + 1) % NumFingerprints

\* get_fingerprint_for_domain(domain)
GetFingerprintForDomain(d) == HashOf(d)

(***************************************************************************)
(* Checkpoint                                                              *)
(***************************************************************************)
Range(seq) == {seq[i] : i \in DOMAIN seq}

\* list(a_set): the elements in some order
RECURSIVE SetToSeq(_)
SetToSeq(S) ==
  IF S = {} THEN << >>
  ELSE LET x == CHOOSE x \in S : TRUE IN <<x>> \o SetToSeq(S \ {x})

\* the stats dict of a new Checkpoint
FreshStats ==
  [total_queries |-> 0, total_pages |-> 0, total_words |-> 0,
   failed_fetches |-> 0, failed_extractions |-> 0]

\* Checkpoint.__init__
FreshCheckpoint ==
  [completed_queries |-> {}, fetched_urls |-> {}, failed_urls |-> << >>,
   stats |-> FreshStats]

\* a path that does not exist; a file opened for writing and not yet written
Absent == [kind |-> "absent"]

Truncated == [kind |-> "partial"]

\* what load() gives on a file json.load cannot parse
Corrupt == [kind |-> "corrupt"]

\* the path of the checkpoint file and self.path.with_suffix(".tmp")
CheckpointPath == "cp.json"

TmpPath_InPlace(path) == path

TmpPath(path) == "cp.tmp"

Paths == {CheckpointPath, TmpPath(CheckpointPath)}

\* save: the JSON document json.dump writes
Encode_NoUrlHistory(c) ==
  [kind |-> "json",
   completed_queries |-> SetToSeq(c.completed_queries),
   fetched_urls |-> << >>,
   failed_urls |-> << >>,
   stats |-> c.stats]

Encode(c) ==
  [kind |-> "json",
   completed_queries |-> SetToSeq(c.completed_queries),
   fetched_urls |-> SetToSeq(c.fetched_urls),
   failed_urls |-> c.failed_urls,
   stats |-> c.stats]

\* load on an instance in state c: a missing file leaves it as it is
Load_NoFailures(c, file) ==
  IF file.kind = "absent" THEN c
  ELSE IF file.kind = "partial" THEN Corrupt
  ELSE [completed_queries |-> Range(file.completed_queries),
        fetched_urls |-> Range(file.fetched_urls),
        failed_urls |-> << >>,
        stats |-> file.stats]

Load(c, file) ==
  IF file.kind = "absent" THEN c
  ELSE IF file.kind = "partial" THEN Corrupt
  ELSE [completed_queries |-> Range(file.completed_queries),
        fetched_urls |-> Range(file.fetched_urls),
        failed_urls |-> file.failed_urls,
        stats |-> file.stats]

\* load() of the checkpoint path into a fresh instance
LoadFresh(fs) == Load(FreshCheckpoint, fs[CheckpointPath])

IsQueryDone_Never(c, q) == FALSE

IsQueryDone(c, q) == q \in c.completed_queries

\* mark_query_done, before its save()
MarkQueryDone_NotRecorded(c, q) ==
  [c EXCEPT !.stats.total_queries = @ + 1]

MarkQueryDone(c, q) ==
  [c EXCEPT !.completed_queries = @ \cup {q},
            !.stats.total_queries = @ + 1]

IsUrlFetched_Never(c, u) == FALSE

IsUrlFetched(c, u) == u \in c.fetched_urls

MarkUrlFetched_Skipped(c, u) == c

MarkUrlFetched(c, u) == [c EXCEPT !.fetched_urls = @ \cup {u}]

\* self.failed_urls.get(url, 0)
FailCount(c, u) == IF u \in DOMAIN c.failed_urls THEN c.failed_urls[u] ELSE 0

MarkUrlFailed(c, u) ==
  [c EXCEPT !.failed_urls = IF u \in DOMAIN @ THEN [@ EXCEPT ![u] = @ + 1]
                             ELSE @ @@ (u :> 1),
            !.stats.failed_fetches = @ + 1]

\* should_retry(url, max_retries=3)
MaxRetries == 3

ShouldRetryUrl(c, u, max_retries) == FailCount(c, u) < max_retries

\* reset_queries, before its save()
ResetQueries_All(c) == FreshCheckpoint

ResetQueries(c) ==
  [c EXCEPT !.completed_queries = {}, !.stats = FreshStats]

(***************************************************************************)
(* The web the pipeline runs against.                                      *)
(***************************************************************************)
U1 == "https://a.com/1"

U1s == "https://a.com/1/"

U2 == "https://a.com/2"

UX == "https://x.com/1"

UW == "https://www.x.com/1"

PUrls == {U1, U1s, U2, UX, UW}

\* urlparse(url).netloc.lower()
ExtractDomain(u) ==
  IF u = UX THEN "x.com" ELSE IF u = UW THEN "www.x.com" ELSE "a.com"

\* _base_domain(hostname): the last two labels
BaseDomain(host) == IF host = "www.x.com" THEN "x.com" ELSE host

\* hostname.replace("www.", "").split(":")[0]
DomainClean(host) == IF host = "www.x.com" THEN "x.com" ELSE host

\* the links extract_links finds on a page
LinksOf(u) ==
  IF u \in {U1, U1s} THEN <<U2, UX>>
  ELSE IF u = U2 THEN <<U1s>>
  ELSE << >>

\* the text the extractor returns for a page, and its word count
TextOf(u) == IF u = U2 THEN <<"text", " ", "two">> ELSE <<"text", " ", "one">>

WordCount(text) == 2

\* the lines of the exclusion file
ExcludeFile == {[scheme |-> "https://", www |-> TRUE, host |-> "x.com", path |-> "/news"]}

\* _load_exclusions: scheme, "www." and path removed
LoadExclusions(lines) == {l.host : l \in lines}

\* the lists the search collaborator may return
SearchOutcomes == {<< >>, <<UX, U2>>, <<U1, U2>>, <<UW>>}

\* what fetch_batch may return for a URL: an error outcome, text, PDF bytes,
\* or a 200 outcome with an empty body
FetchOutcomes == {"error", "html", "pdf", "empty"}

\* what the extractor may return: failed / below min_word_count, or a text
ExtractOutcomes == {"failed", "ok"}

\* config.crawl_depth and config.max_pages_per_domain of the runs
CrawlDepth == 1

MaxPagesPerDomain == 2

\* --crawl-depth is parsed with type=int and not validated: a negative depth
NegativeDepth == -1

\* the configurations a run may have
Configs ==
  { [resume |-> FALSE, reset_queries |-> FALSE, crawl |-> FALSE,
     crawl_depth |-> CrawlDepth],
    [resume |-> TRUE, reset_queries |-> FALSE, crawl |-> TRUE,
     crawl_depth |-> CrawlDepth],
    [resume |-> TRUE, reset_queries |-> TRUE, crawl |-> FALSE,
     crawl_depth |-> CrawlDepth],
    [resume |-> FALSE, reset_queries |-> FALSE, crawl |-> TRUE,
     crawl_depth |-> NegativeDepth] }

\* max_depth = self._config.crawl_depth if self._config.crawl else 0
MaxDepth_Unlimited(cfg) == cfg.crawl_depth + NumQueries + MaxRuns

MaxDepth(cfg) == IF cfg.crawl THEN cfg.crawl_depth ELSE 0

(***************************************************************************)
(* Deduplicator                                                            *)
(***************************************************************************)
SHINGLE_SIZE == 3

\* LSH_THRESHOLD = 0.85, in hundredths
LSH_THRESHOLD == 85

\* URLs given to the Deduplicator directly
DUrls ==
  {"https://ex.com/a", "https://EX.com/A", "https://ex.com/a/",
   "https://ex.com/a#x", "https://ex.com/a#x/", "https://ex.com/a/b"}

\* the characters of a URL, grouped into the pieces normalization looks at
Spelling(u) ==
  CASE u = "https://ex.com/a"    -> <<"https://ex.com", "/", "a">>
    [] u = "https://EX.com/A"    -> <<"https://EX.com", "/", "A">>
    [] u = "https://ex.com/a/"   -> <<"https://ex.com", "/", "a", "/">>
    [] u = "https://ex.com/a#x"  -> <<"https://ex.com", "/", "a", "#", "x">>
    [] u = "https://ex.com/a#x/" -> <<"https://ex.com", "/", "a", "#", "x", "/">>
    [] u = "https://ex.com/a/b"  -> <<"https://ex.com", "/", "a", "/", "b">>
    [] u = U1                    -> <<"https://a.com", "/", "1">>
    [] u = U1s                   -> <<"https://a.com", "/", "1", "/">>
    [] u = U2                    -> <<"https://a.com", "/", "2">>
    [] u = UX                    -> <<"https://x.com", "/", "1">>
    [] u = UW                    -> <<"https://www.x.com", "/", "1">>

\* urldefrag(url)[0]: the URL up to the first "#"
RECURSIVE Defrag(_)
Defrag(s) ==
  IF s = << >> \/ Head(s) = "#" THEN << >> ELSE <<Head(s)>> \o Defrag(Tail(s))

\* str.lower() of one piece
LowerPiece(piece) ==
  CASE piece = "https://EX.com" -> "https://ex.com"
    [] piece = "A" -> "a"
    [] OTHER -> piece

Lower(s) == [i \in DOMAIN s |-> LowerPiece(s[i])]

\* str.rstrip("/"): every trailing "/" removed
RECURSIVE RStripSlash(_)
RStripSlash(s) ==
  IF s # << >> /\ s[Len(s)] = "/" THEN RStripSlash(SubSeq(s, 1, Len(s) - 1))
  ELSE s

\* _normalize_url: fragment removed, lowercased, trailing "/" stripped
NormalizeUrl_KeepCase(u) == RStripSlash(Defrag(Spelling(u)))

NormalizeUrl(u) == RStripSlash(Lower(Defrag(Spelling(u))))

\* sha256 of the normalized URL
HashUrl(u) == <<"sha256", NormalizeUrl(u)>>

\* A text is the sequence of its words and of the blanks between them.
Empty == << >>

Blank == <<" ">>

TextOne == <<"text", " ", "one">>

\* a text of nine words, and the text of its first eight words
Long9 ==
  <<"a", " ", "b", " ", "c", " ", "d", " ", "e", " ", "f", " ", "g", " ",
    "h", " ", "i">>

Long8 == SubSeq(Long9, 1, 15)

\* "X" * 2000 + "AAAA" and "X" * 2000 + "BBBB": one word each
XA == <<"X2000AAAA">>

XB == <<"X2000BBBB">>

\* contents given to the Deduplicator directly
DTexts == {Empty, Blank, TextOne, Long9, Long8, XA, XB}

\* the characters of a piece of text, as runs <<character, count>>
RunsOf(piece) ==
  CASE piece = "text" -> <<<<"t", 1>>, <<"e", 1>>, <<"x", 1>>, <<"t", 1>>>>
    [] piece = "one" -> <<<<"o", 1>>, <<"n", 1>>, <<"e", 1>>>>
    [] piece = "two" -> <<<<"t", 1>>, <<"w", 1>>, <<"o", 1>>>>
    [] piece = "X2000AAAA" -> <<<<"X", 2000>>, <<"A", 4>>>>
    [] piece = "X2000BBBB" -> <<<<"X", 2000>>, <<"B", 4>>>>
    [] OTHER -> <<<<piece, 1>>>>

\* len(s) of a string given as runs
RECURSIVE CharCount(_)
CharCount(rs) ==
  IF rs = << >> THEN 0 ELSE Head(rs)[2] + CharCount(Tail(rs))

\* s[:n] of a string given as runs
RECURSIVE TakeRuns(_, _)
TakeRuns(rs, n) ==
  IF rs = << >> \/ n <= 0 THEN << >>
  ELSE IF Head(rs)[2] >= n THEN <<<<Head(rs)[1], n>>>>
  ELSE <<Head(rs)>> \o TakeRuns(Tail(rs), n - Head(rs)[2])

\* content[:n]: the characters of the pieces up to the n-th character
RECURSIVE Prefix(_, _)
Prefix(text, n) ==
  IF text = << >> \/ n <= 0 THEN << >>
  ELSE <<TakeRuns(RunsOf(Head(text)), n)>>
         \o Prefix(Tail(text), n - CharCount(RunsOf(Head(text))))

\* the slice length of content[:2000]
HASH_PREFIX == 2000

\* sha256 of content[:2000]
HashContent_Whole(text) == <<"sha256", [i \in DOMAIN text |-> RunsOf(text[i])]>>

HashContent(text) == <<"sha256", Prefix(text, HASH_PREFIX)>>

\* content.split()
Words(text) == SelectSeq(text, LAMBDA piece : piece # " ")

\* _minhash_content: the MinHash of the 3-word shingles of the content (of
\* the whole content when it has fewer than 3 words), given as the shingle
\* set that determines its hashvalues
MinhashContent(text) ==
  LET words == Words(text) IN
  IF Len(words) < SHINGLE_SIZE THEN {words}
  ELSE {SubSeq(words, i, i + SHINGLE_SIZE - 1) :
          i \in 1..(Len(words) - SHINGLE_SIZE + 1)}

\* the MinHash LSH match: Jaccard similarity of the shingle sets >= 0.85
Similar(m1, m2) ==
  100 * Cardinality(m1 \cap m2) >= LSH_THRESHOLD * Cardinality(m1 \cup m2)

\* Deduplicator.__init__; _lsh is a MinHashLSH (on) when datasketch is
\* installed, else None
NewDeduplicator(has_datasketch) ==
  [seen_urls |-> {}, seen_content |-> {},
   lsh |-> [on |-> has_datasketch, index |-> {}],
   minhashes |-> << >>, doc_counter |-> 0]

\* the Deduplicator of the pipeline (datasketch is a dependency)
FreshDedup == NewDeduplicator(TRUE)

IsDuplicateUrl(d, u) == HashUrl(u) \in d.seen_urls

\* is_duplicate_content: the exact hash, then the LSH query
IsDuplicateContent_Never(d, text) == FALSE

IsDuplicateContent(d, text) ==
  \/ HashContent(text) \in d.seen_content
  \/ /\ d.lsh.on
     /\ Words(text) # << >>        \* content.strip()
     /\ \E e \in d.lsh.index : Similar(e[2], MinhashContent(text))

\* str(self._doc_counter), and int(key)
KeyOf(n) == <<"str", n>>

IntOf(key) == key[2]

\* mark_seen(url, content)
MarkSeen_UrlOnly(d, u, text) == [d EXCEPT !.seen_urls = @ \cup {HashUrl(u)}]

MarkSeen(d, u, text) ==
  LET d1 == [d EXCEPT !.seen_urls = @ \cup {HashUrl(u)}]
      key == KeyOf(d.doc_counter)
      m == MinhashContent(text)
  IN  IF text = Empty THEN d1
      ELSE IF ~d.lsh.on
        THEN [d1 EXCEPT !.seen_content = @ \cup {HashContent(text)}]
      ELSE [d1 EXCEPT !.seen_content = @ \cup {HashContent(text)},
                      !.lsh.index = @ \cup {<<key, m>>},
                      !.minhashes = @ @@ (key :> m),
                      !.doc_counter = @ + 1]

\* m.hashvalues.tobytes().hex(), and np.frombuffer(bytes.fromhex(..))
Hex(m) == <<"hex", m>>

FromHex(h) == h[2]

\* save: the JSON document; "minhash" is written only when there are any
Save_NoMinhash(d) ==
  [urls |-> SetToSeq(d.seen_urls), content |-> SetToSeq(d.seen_content),
   has_minhash |-> FALSE, minhash |-> << >>]

Save(d) ==
  [urls |-> SetToSeq(d.seen_urls), content |-> SetToSeq(d.seen_content),
   has_minhash |-> d.minhashes # << >>,
   minhash |-> [key \in DOMAIN d.minhashes |-> Hex(d.minhashes[key])]]

\* max(int(key) + 1) over the keys, from 0
RECURSIVE MaxKey(_)
MaxKey(keys) ==
  IF keys = {} THEN 0
  ELSE LET key == CHOOSE key \in keys : TRUE
           rest == MaxKey(keys \ {key})
       IN  IF IntOf(key) + 1 > rest THEN IntOf(key) + 1 ELSE rest

\* load(path) of an existing file into the instance d
LoadDedup(d, doc) ==
  LET minhash_data == IF doc.has_minhash THEN doc.minhash ELSE << >>
      d1 == [d EXCEPT !.seen_urls = Range(doc.urls),
                      !.seen_content = Range(doc.content)]
  IN  IF minhash_data # << >> /\ d.lsh.on
        THEN [d1 EXCEPT
                !.lsh.index = {<<key, FromHex(minhash_data[key])>> :
                                 key \in DOMAIN minhash_data},
                !.minhashes = [key \in DOMAIN minhash_data |->
                                 FromHex(minhash_data[key])],
                !.doc_counter = MaxKey(DOMAIN minhash_data)]
        ELSE d1

(***************************************************************************)
(* extract/links.py                                                        *)
(***************************************************************************)
\* get(hostname, 0) of a Counter
Count(counts, host) == IF host \in DOMAIN counts THEN counts[host] ELSE 0

Increment(counts, host) ==
  IF host \in DOMAIN counts THEN [counts EXCEPT ![host] = @ + 1]
  ELSE counts @@ (host :> 1)

filter_links_no_cap(links, source_domain, excl, seen_urls, counts, cap) ==
  LET Keep(u) ==
        /\ BaseDomain(ExtractDomain(u)) = BaseDomain(source_domain)
        /\ DomainClean(ExtractDomain(u)) \notin excl
        /\ u \notin seen_urls
  IN  SelectSeq(links, Keep)

filter_links_same_domain(links, source_domain, excl, seen_urls, counts, cap) ==
  LET Keep(u) ==
        /\ BaseDomain(ExtractDomain(u)) = BaseDomain(source_domain)
        /\ DomainClean(ExtractDomain(u)) \notin excl
        /\ u \notin seen_urls
        /\ ~(Count(counts, ExtractDomain(u)) >= cap)
  IN  SelectSeq(links, Keep)

\* the loop over new_links of run(): <<next_depth_urls, all_seen_urls>>;
\* a fetched or seen link is passed over (continue), the loop ends when the
\* frontier has max_pages_per_domain entries (break)
Enqueue(links, c, d, next, seen) ==
  LET Fresh(link) == ~(IsUrlFetched(c, link) \/ IsDuplicateUrl(d, link))
      fresh == SelectSeq(links, Fresh)
      room == IF Len(next) >= MaxPagesPerDomain THEN 0
              ELSE MaxPagesPerDomain - Len(next)
      taken == SubSeq(fresh, 1, IF Len(fresh) < room THEN Len(fresh) ELSE room)
  IN  <<next \o taken, seen \cup Range(taken)>>

\* the batch of all depths is appended to the output, when there is any
WriteBatch_Skipped(rows, records) == rows

WriteBatch(rows, records) ==
  IF records # << >> THEN rows \o records ELSE rows

\* the filter of the search results of run()
FilterResults(results, excl, c, d) ==
  LET Keep(u) ==
        /\ ExtractDomain(u) \notin excl
        /\ ~IsDuplicateUrl(d, u)
        /\ ~IsUrlFetched(c, u)
  IN  SelectSeq(results, Keep)

(***************************************************************************)
(* SpecRun: runs of ScraperPipeline.run() against one queries file and one *)
(* checkpoint file; the process may crash at any step and be started again.*)
(***************************************************************************)
\* the objects called directly, not constructed
ThrottleQuiet ==
  /\ throttler = << >>
  /\ tlevel = 0
  /\ tcalls = 0
  /\ tlast = << >>

DedupQuiet ==
  /\ dd = << >>
  /\ dd_file = << >>
  /\ dd2 = << >>
  /\ marked = {}

SearchQuiet ==
  /\ consecutive_ratelimits = 0
  /\ searches = 0
  /\ last_search = << >>

\* the variables of SpecFetch, at rest
FetchQuiet ==
  /\ respect_robots = FALSE
  /\ urls = << >>
  /\ pc = << >>
  /\ fp = << >>
  /\ gets = << >>
  /\ resps = << >>
  /\ bodyFail = << >>
  /\ allowedRes = << >>
  /\ result = << >>
  /\ acquired = << >>
  /\ released = << >>
  /\ cache = << >>
  /\ robotsGets = << >>
  /\ semaphores = << >>
  /\ limiters = {}
  /\ extra_delays = << >>
  /\ globalFree = MaxConcurrentTotal
  /\ out = << >>

NoSave == [active |-> FALSE, old |-> FreshCheckpoint, new |-> FreshCheckpoint]

\* the state of a process that has just constructed its ScraperPipeline; the
\* output file of a run is named after the time the run starts
NewProcess ==
  /\ rpc' = "boot"
  /\ written' = << >>
  /\ after' = "loop"
  /\ qi' = 0
  /\ ckpt' = FreshCheckpoint
  /\ dedup' = FreshDedup
  /\ exclusions' = {}
  /\ domain_page_counts' = << >>
  /\ urls_to_fetch' = << >>
  /\ k' = 0
  /\ current_depth' = 0
  /\ next_depth_urls' = << >>
  /\ all_seen_urls' = {}
  /\ all_records' = << >>
  /\ loadedDone' = {}
  /\ searched' = {}
  /\ fetchedFor' = {}
  /\ skipped' = {}
  /\ processed' = {}
  /\ raised' = {}
  /\ returned' = {}
  /\ snap' = FreshCheckpoint
  /\ saving' = NoSave

RunInit ==
  /\ runs = 1
  /\ config \in Configs
  /\ queries \in {[i \in 1..n |-> i] : n \in {0, NumQueries}}
  /\ files = [p \in Paths |-> Absent]
  /\ rpc = "boot"
  /\ after = "loop"
  /\ qi = 0
  /\ ckpt = FreshCheckpoint
  /\ dedup = FreshDedup
  /\ exclusions = {}
  /\ domain_page_counts = << >>
  /\ urls_to_fetch = << >>
  /\ k = 0
  /\ current_depth = 0
  /\ next_depth_urls = << >>
  /\ all_seen_urls = {}
  /\ all_records = << >>
  /\ written = << >>
  /\ doneAtStart = {}
  /\ loadedDone = {}
  /\ searched = {}
  /\ fetchedFor = {}
  /\ skipped = {}
  /\ processed = {}
  /\ raised = {}
  /\ returned = {}
  /\ snap = FreshCheckpoint
  /\ saving = NoSave

\* the pipeline variables, at rest
RunQuiet ==
  /\ runs = 0
  /\ config = [resume |-> FALSE, reset_queries |-> FALSE, crawl |-> FALSE,
               crawl_depth |-> CrawlDepth]
  /\ queries = << >>
  /\ files = [p \in Paths |-> Absent]
  /\ rpc = "idle"
  /\ after = "loop"
  /\ qi = 0
  /\ ckpt = FreshCheckpoint
  /\ dedup = FreshDedup
  /\ exclusions = {}
  /\ domain_page_counts = << >>
  /\ urls_to_fetch = << >>
  /\ k = 0
  /\ current_depth = 0
  /\ next_depth_urls = << >>
  /\ all_seen_urls = {}
  /\ all_records = << >>
  /\ written = << >>
  /\ doneAtStart = {}
  /\ loadedDone = {}
  /\ searched = {}
  /\ fetchedFor = {}
  /\ skipped = {}
  /\ processed = {}
  /\ raised = {}
  /\ returned = {}
  /\ snap = FreshCheckpoint
  /\ saving = NoSave

\* run() steps 5 and 6: the queries are loaded; no query ends the run
BeginLoop ==
  IF queries = << >>
    THEN rpc' = "done" /\ qi' = 0
    ELSE rpc' = "loop" /\ qi' = 1

\* the call of Checkpoint.save() on state c, returning to position a
CallSave(c, a) ==
  /\ ckpt' = c
  /\ rpc' = "save_open"
  /\ after' = a
  /\ saving' = [active |-> TRUE, old |-> LoadFresh(files), new |-> c]

\* run() steps 4 and 5: exclusions, checkpoint (resume, reset), queries
RunStart ==
  /\ rpc = "boot"
  /\ exclusions' = LoadExclusions(ExcludeFile)
  /\ IF config.resume
       THEN LET loaded == Load(ckpt, files[CheckpointPath]) IN
            IF loaded = Corrupt
              THEN /\ rpc' = "aborted"
                   /\ UNCHANGED <<ckpt, after, qi, saving, loadedDone>>
            ELSE IF config.reset_queries
              THEN /\ CallSave(ResetQueries(loaded), "load_queries")
                   /\ loadedDone' = {}
                   /\ UNCHANGED qi
            ELSE /\ ckpt' = loaded
                 /\ loadedDone' = loaded.completed_queries
                 /\ BeginLoop
                 /\ UNCHANGED <<after, saving>>
       ELSE /\ BeginLoop
            /\ UNCHANGED <<ckpt, after, saving, loadedDone>>
  /\ UNCHANGED <<runs, config, queries, files, dedup, domain_page_counts,
                 written, uvars, doneAtStart, searched, fetchedFor, skipped,
                 processed, raised, returned, snap>>
  /\ UNCHANGED <<fvars, xvars>>

\* the head of the for loop: end of the run, a unit already done is skipped,
\* or the unit is searched next
NextQuery ==
  /\ rpc = "loop"
  /\ IF qi > Len(queries)
       THEN rpc' = "done" /\ UNCHANGED <<qi, skipped>>
     ELSE IF IsQueryDone(ckpt, queries[qi])
       THEN /\ qi' = qi + 1
            /\ skipped' = skipped \cup {queries[qi]}
            /\ UNCHANGED rpc
     ELSE rpc' = "search" /\ UNCHANGED <<qi, skipped>>
  /\ UNCHANGED <<runs, config, queries, files, after, ckpt, dedup, exclusions,
                 domain_page_counts, written, uvars, doneAtStart, loadedDone,
                 searched, fetchedFor, processed, raised, returned, snap,
                 saving>>
  /\ UNCHANGED <<fvars, xvars>>

\* self._searcher.search returns; no result or nothing left after the filter
\* marks the unit done, otherwise the frontier of depth 0 is set up
SearchReturns(search_results) ==
  LET query == queries[qi]
      filtered == FilterResults(search_results, exclusions, ckpt, dedup)
  IN
  /\ rpc = "search"
  /\ searched' = searched \cup {query}
  /\ IF search_results = << >> \/ filtered = << >>
       THEN /\ CallSave(MarkQueryDone(ckpt, query), "loop")
            /\ processed' = processed \cup {query}
            /\ UNCHANGED uvars
       ELSE /\ urls_to_fetch' = filtered
            /\ all_seen_urls' = Range(filtered)
            /\ current_depth' = 0
            /\ all_records' = << >>
            /\ next_depth_urls' = << >>
            /\ k' = 0
            /\ rpc' = "fetch"
            /\ UNCHANGED <<ckpt, after, saving, processed>>
  /\ UNCHANGED <<runs, config, queries, files, qi, dedup, exclusions,
                 domain_page_counts, written, doneAtStart, loadedDone,
                 fetchedFor, skipped, raised, returned, snap>>
  /\ UNCHANGED <<fvars, xvars>>

\* self._searcher.search raises: nothing in run() catches the exception
SearchRaises ==
  /\ rpc = "search"
  /\ searched' = searched \cup {queries[qi]}
  /\ raised' = raised \cup {queries[qi]}
  /\ rpc' = "aborted"
  /\ UNCHANGED <<runs, config, queries, files, after, qi, ckpt, dedup,
                 exclusions, domain_page_counts, written, uvars, doneAtStart,
                 loadedDone, fetchedFor, skipped, processed, returned, snap,
                 saving>>
  /\ UNCHANGED <<fvars, xvars>>

\* the head of the while loop: fetch_batch(urls_to_fetch) has returned
FetchLevel ==
  /\ rpc = "fetch"
  /\ fetchedFor' = fetchedFor \cup {queries[qi]}
  /\ next_depth_urls' = << >>
  /\ k' = 1
  /\ rpc' = "process"
  /\ UNCHANGED <<runs, config, queries, files, after, qi, ckpt, dedup,
                 exclusions, domain_page_counts, written, urls_to_fetch,
                 current_depth, all_seen_urls, all_records, doneAtStart,
                 loadedDone, searched, skipped, processed, raised, returned,
                 snap, saving>>
  /\ UNCHANGED <<fvars, xvars>>

\* the body of the for loop over zip(urls_to_fetch, fetch_results), for the
\* outcome fr of the k-th URL, the extraction ex and the date filter verdict
ProcessOutcome(fr, ex, datePass) ==
  LET url == urls_to_fetch[k]
      c1 == MarkUrlFetched(ckpt, url)
      max_depth == MaxDepth(config)
      counts1 == Increment(domain_page_counts, ExtractDomain(url))
      follow == config.crawl /\ current_depth < max_depth /\ fr = "html"
      new_links == filter_links_same_domain(LinksOf(url), ExtractDomain(url),
                     exclusions, all_seen_urls, counts1, MaxPagesPerDomain)
      queued == IF follow
                  THEN Enqueue(new_links, c1, dedup, next_depth_urls, all_seen_urls)
                  ELSE <<next_depth_urls, all_seen_urls>>
      text == TextOf(url)
  IN
  /\ rpc = "process"
  /\ k <= Len(urls_to_fetch)
  /\ IF fr = "error"
       THEN /\ ckpt' = MarkUrlFailed(c1, url)
            /\ UNCHANGED <<domain_page_counts, next_depth_urls, all_seen_urls,
                           dedup, all_records>>
     ELSE IF fr = "empty"
       THEN /\ ckpt' = c1
            /\ UNCHANGED <<domain_page_counts, next_depth_urls, all_seen_urls,
                           dedup, all_records>>
     ELSE /\ domain_page_counts' = counts1
          /\ next_depth_urls' = queued[1]
          /\ all_seen_urls' = queued[2]
          /\ IF ex = "failed"
               THEN /\ ckpt' = [c1 EXCEPT !.stats.failed_extractions = @ + 1]
                    /\ UNCHANGED <<dedup, all_records>>
             ELSE IF ~datePass \/ IsDuplicateContent(dedup, text)
               THEN /\ ckpt' = c1
                    /\ UNCHANGED <<dedup, all_records>>
             ELSE /\ dedup' = MarkSeen(dedup, url, text)
                  /\ all_records' = Append(all_records,
                                      [company |-> queries[qi], link |-> url,
                                       full_text |-> text])
                  /\ ckpt' = [c1 EXCEPT !.stats.total_pages = @ + 1,
                                        !.stats.total_words = @ + WordCount(text)]
  /\ k' = k + 1
  /\ rpc' = IF k = Len(urls_to_fetch) THEN "level_end" ELSE "process"
  /\ UNCHANGED <<runs, config, queries, files, after, qi, exclusions, written,
                 urls_to_fetch, current_depth, hvars>>
  /\ UNCHANGED <<fvars, xvars>>

Process ==
  \E fr \in FetchOutcomes, ex \in ExtractOutcomes, datePass \in BOOLEAN :
    /\ (fr \in {"error", "empty"} => ex = "ok" /\ datePass)
    /\ (ex = "failed" => datePass)
    /\ ProcessOutcome(fr, ex, datePass)

\* the end of a frontier level: the next level is fetched, or the batch of
\* all depths is written and the unit is marked done
EndLevel ==
  /\ rpc = "level_end"
  /\ current_depth' = current_depth + 1
  /\ urls_to_fetch' = next_depth_urls
  /\ IF next_depth_urls # << >>
       THEN /\ rpc' = "fetch"
            /\ UNCHANGED <<written, ckpt, after, saving, processed>>
       ELSE /\ written' = WriteBatch(written, all_records)
            /\ CallSave(MarkQueryDone(ckpt, queries[qi]), "loop")
            /\ processed' = processed \cup {queries[qi]}
  /\ UNCHANGED <<runs, config, queries, files, qi, dedup, exclusions,
                 domain_page_counts, k, next_depth_urls, all_seen_urls,
                 all_records, doneAtStart, loadedDone, searched, fetchedFor,
                 skipped, raised, returned, snap>>
  /\ UNCHANGED <<fvars, xvars>>

\* save: open(tmp, "w") creates or truncates the temporary file
SaveOpen ==
  /\ rpc = "save_open"
  /\ files' = [files EXCEPT ![TmpPath(CheckpointPath)] = Truncated]
  /\ rpc' = "save_dump"
  /\ UNCHANGED <<runs, config, queries, after, qi, ckpt, dedup, exclusions,
                 domain_page_counts, written, uvars, hvars>>
  /\ UNCHANGED <<fvars, xvars>>

\* save: json.dump(data, f) and the file is closed
SaveDump ==
  /\ rpc = "save_dump"
  /\ files' = [files EXCEPT ![TmpPath(CheckpointPath)] = Encode(ckpt)]
  /\ rpc' = "save_replace"
  /\ UNCHANGED <<runs, config, queries, after, qi, ckpt, dedup, exclusions,
                 domain_page_counts, written, uvars, hvars>>
  /\ UNCHANGED <<fvars, xvars>>

\* os.replace(tmp, path): the path gets the content of tmp, tmp is gone
Replace(fs, src, dst) ==
  IF src = dst THEN fs
  ELSE [fs EXCEPT ![dst] = fs[src], ![src] = Absent]

\* save: os.replace(tmp, self.path)
SaveReplace ==
  /\ rpc = "save_replace"
  /\ files' = Replace(files, TmpPath(CheckpointPath), CheckpointPath)
  /\ rpc' = "save_return"
  /\ UNCHANGED <<runs, config, queries, after, qi, ckpt, dedup, exclusions,
                 domain_page_counts, written, uvars, hvars>>
  /\ UNCHANGED <<fvars, xvars>>

\* save returns, and with it mark_query_done (the loop goes on with the next
\* unit) or reset_queries (the queries are loaded)
SaveReturn ==
  /\ rpc = "save_return"
  /\ saving' = NoSave
  /\ IF after = "loop"
       THEN /\ returned' = returned \cup {queries[qi]}
            /\ snap' = ckpt
            /\ qi' = qi + 1
            /\ rpc' = "loop"
       ELSE /\ BeginLoop
            /\ UNCHANGED <<returned, snap>>
  /\ UNCHANGED <<runs, config, queries, files, after, ckpt, dedup, exclusions,
                 domain_page_counts, written, uvars, doneAtStart, loadedDone,
                 searched, fetchedFor, skipped, processed, raised>>
  /\ UNCHANGED <<fvars, xvars>>

\* the process is killed: its memory is lost, the files stay
Crash ==
  /\ rpc \notin {"idle", "done", "crashed", "aborted"}
  /\ rpc' = "crashed"
  /\ after' = "loop"
  /\ qi' = 0
  /\ ckpt' = FreshCheckpoint
  /\ dedup' = FreshDedup
  /\ exclusions' = {}
  /\ domain_page_counts' = << >>
  /\ urls_to_fetch' = << >>
  /\ k' = 0
  /\ current_depth' = 0
  /\ next_depth_urls' = << >>
  /\ all_seen_urls' = {}
  /\ all_records' = << >>
  /\ UNCHANGED <<runs, config, queries, files, written, hvars>>
  /\ UNCHANGED <<fvars, xvars>>

\* the pipeline is run again, against the same queries and checkpoint files
Restart ==
  /\ rpc \in {"done", "crashed", "aborted"}
  /\ runs < MaxRuns
  /\ runs' = runs + 1
  /\ config' \in Configs
  /\ doneAtStart' = LoadFresh(files).completed_queries
  /\ NewProcess
  /\ UNCHANGED <<queries, files>>
  /\ UNCHANGED <<fvars, xvars>>

InitRun ==
  RunInit /\ FetchQuiet /\ ThrottleQuiet /\ DedupQuiet /\ SearchQuiet

\* the steps of a run whose collaborators all return
NextReturns ==
  \/ RunStart
  \/ NextQuery
  \/ \E search_results \in SearchOutcomes : SearchReturns(search_results)
  \/ FetchLevel
  \/ Process
  \/ EndLevel
  \/ SaveOpen
  \/ SaveDump
  \/ SaveReplace
  \/ SaveReturn
  \/ Restart

NextRun ==
  \/ NextReturns
  \/ SearchRaises
  \/ Crash

SpecRun == InitRun /\ [][NextRun]_vars

\* the steps of runs whose collaborators all return; a run may be killed
NextLive ==
  \/ NextReturns
  \/ Crash

\* a process that is not killed takes its next step
SpecRunLive == InitRun /\ [][NextLive]_vars /\ WF_vars(NextReturns)

(***************************************************************************)
(* SpecFetch: the tasks created by one FetchClient.fetch_batch(urls).      *)
(***************************************************************************)
InitFetch ==
  /\ respect_robots \in BOOLEAN
  /\ urls \in Batches
  /\ pc = [t \in Tasks |-> "start"]
  /\ fp = [t \in Tasks |-> NONE]
  /\ gets = [t \in Tasks |-> << >>]
  /\ resps = [t \in Tasks |-> << >>]
  /\ bodyFail = [t \in Tasks |-> FALSE]
  /\ allowedRes = [t \in Tasks |-> "unknown"]
  /\ result = [t \in Tasks |-> NoResult]
  /\ acquired = [t \in Tasks |-> 0]
  /\ released = [t \in Tasks |-> 0]
  /\ cache = << >>
  /\ robotsGets = [d \in Domains |-> 0]
  /\ semaphores = << >>
  /\ limiters = {}
  /\ extra_delays = << >>
  /\ globalFree = MaxConcurrentTotal
  /\ out = << >>
  /\ RunQuiet
  /\ ThrottleQuiet
  /\ DedupQuiet
  /\ SearchQuiet

\* fetch, after is_allowed answered `allowed`: the early return of step 1,
\* or steps 2 and 3 up to the wait on the domain semaphore
AfterRobots(t, allowed) ==
  LET d == urls[t].domain IN
  /\ allowedRes' = [allowedRes EXCEPT ![t] = IF allowed THEN "yes" ELSE "no"]
  /\ IF RobotsBlocks(respect_robots, allowed)
       THEN /\ result' = [result EXCEPT ![t] = RobotsDenied]
            /\ pc' = [pc EXCEPT ![t] = "done"]
            /\ UNCHANGED <<fp, semaphores, limiters>>
       ELSE /\ fp' = [fp EXCEPT ![t] = GetFingerprintForDomain(d)]
            /\ semaphores' = GetLimiterSems(semaphores, d)
            /\ limiters' = limiters \cup {d}
            /\ pc' = [pc EXCEPT ![t] = "sem_wait"]
            /\ UNCHANGED result

\* fetch is scheduled: robots check (cache hit, or the robots.txt GET is
\* issued), fingerprint, _get_limiter
FetchStart(t) ==
  LET d == urls[t].domain IN
  /\ pc[t] = "start"
  /\ IF urls[t] = BadUrl      \* urlparse(url) raises, and so does fetch
       THEN /\ pc' = [pc EXCEPT ![t] = "raised"]
            /\ UNCHANGED <<fp, semaphores, limiters, allowedRes, result,
                           robotsGets>>
     ELSE IF ~respect_robots
       THEN /\ fp' = [fp EXCEPT ![t] = GetFingerprintForDomain(d)]
            /\ semaphores' = GetLimiterSems(semaphores, d)
            /\ limiters' = limiters \cup {d}
            /\ pc' = [pc EXCEPT ![t] = "sem_wait"]
            /\ UNCHANGED <<allowedRes, result, robotsGets>>
       ELSE IF d \notin DOMAIN cache
         THEN /\ robotsGets' = [robotsGets EXCEPT ![d] = @ + 1]
              /\ pc' = [pc EXCEPT ![t] = "robots_get"]
              /\ UNCHANGED <<fp, semaphores, limiters, allowedRes, result>>
         ELSE /\ AfterRobots(t, IsAllowed(cache, urls[t]))
              /\ UNCHANGED robotsGets
  /\ UNCHANGED <<respect_robots, urls, out, gets, resps, bodyFail, acquired,
                 released, cache, extra_delays, globalFree>>
  /\ UNCHANGED <<pvars, xvars>>

\* _fetch_robots returns: a parser for a 200 answer, None otherwise; the
\* result is cached and is_allowed answers from it
RobotsFetched(t) ==
  LET d == urls[t].domain IN
  /\ pc[t] = "robots_get"
  /\ \E parser \in {NoParser} \cup {Parser(dis) : dis \in RobotsFiles} :
       /\ cache' = IF d \in DOMAIN cache
                     THEN [cache EXCEPT ![d] = parser]
                     ELSE cache @@ (d :> parser)
       /\ AfterRobots(t, IsAllowed(cache', urls[t]))
  /\ UNCHANGED <<respect_robots, urls, out, gets, resps, bodyFail, acquired,
                 released, robotsGets, extra_delays, globalFree>>
  /\ UNCHANGED <<pvars, xvars>>

\* DomainThrottler.acquire: await self._semaphores[domain].acquire()
SemAcquire(t) ==
  LET d == urls[t].domain IN
  /\ pc[t] = "sem_wait"
  /\ SemCanAcquire(semaphores[d])
  /\ semaphores' = [semaphores EXCEPT ![d] = @ - 1]
  /\ pc' = [pc EXCEPT ![t] = "limiter"]
  /\ UNCHANGED <<respect_robots, urls, out, fp, gets, resps, bodyFail, allowedRes,
                 result, acquired, released, cache, robotsGets, limiters,
                 extra_delays, globalFree>>
  /\ UNCHANGED <<pvars, xvars>>

\* DomainThrottler.acquire: the limiter admits the task and the extra delay
\* has been slept; acquire returns
AcquireReturn(t) ==
  /\ pc[t] = "limiter"
  /\ acquired' = [acquired EXCEPT ![t] = @ + 1]
  /\ pc' = [pc EXCEPT ![t] = "global_wait"]
  /\ UNCHANGED <<respect_robots, urls, out, fp, gets, resps, bodyFail, allowedRes,
                 result, released, cache, robotsGets, semaphores, limiters,
                 extra_delays, globalFree>>
  /\ UNCHANGED <<pvars, xvars>>

\* async with self._global_semaphore: enter, and _do_fetch issues the GET
GlobalEnter(t) ==
  /\ pc[t] = "global_wait"
  /\ GlobalCanAcquire(globalFree)
  /\ globalFree' = globalFree - 1
  /\ gets' = [gets EXCEPT ![t] = Append(@, fp[t])]
  /\ pc' = [pc EXCEPT ![t] = "get"]
  /\ UNCHANGED <<respect_robots, urls, out, fp, resps, bodyFail, allowedRes,
                 result, acquired, released, cache, robotsGets, semaphores,
                 limiters, extra_delays>>
  /\ UNCHANGED <<pvars, xvars>>

\* fetch returns r: the global semaphore is left and the finally clause
\* runs DomainThrottler.release(domain)
Return_KeepsGlobal(t, r) ==
  /\ result' = [result EXCEPT ![t] = r]
  /\ UNCHANGED globalFree
  /\ semaphores' = Release(semaphores, urls[t].domain)
  /\ released' = [released EXCEPT ![t] = @ + 1]
  /\ pc' = [pc EXCEPT ![t] = "done"]

Return(t, r) ==
  /\ result' = [result EXCEPT ![t] = r]
  /\ globalFree' = globalFree + 1
  /\ semaphores' = Release(semaphores, urls[t].domain)
  /\ released' = [released EXCEPT ![t] = @ + 1]
  /\ pc' = [pc EXCEPT ![t] = "done"]

\* _do_fetch: the GET is answered with `status` (0: it raised)
Respond(t, status, header, bodyOk) ==
  LET d == urls[t].domain
      retry == Len(resps[t]) = 0
      ra_val == ParseRetryAfter(header)
  IN
  /\ pc[t] = "get"
  /\ resps' = [resps EXCEPT ![t] = Append(@, status)]
  /\ IF status = 200
       THEN /\ extra_delays' = ReportSuccess(extra_delays, d)
            /\ bodyFail' = [bodyFail EXCEPT ![t] = ~bodyOk]
            /\ Return(t, IF bodyOk THEN Success(urls[t]) ELSE TransportError)
            /\ UNCHANGED <<fp, gets>>
     ELSE IF IsBlocked(status)
       THEN /\ extra_delays' = ReportFailure(extra_delays, d, status, ra_val)
            /\ IF ShouldRetry(retry)
                 THEN /\ fp' = [fp EXCEPT ![t] = NextFingerprint(fp[t])]
                      /\ gets' = [gets EXCEPT ![t] = Append(@, fp'[t])]
                      /\ UNCHANGED <<pc, result, globalFree, semaphores,
                                     released, bodyFail>>
                 ELSE /\ Return(t, HttpError(status))
                      /\ UNCHANGED <<fp, gets, bodyFail>>
     ELSE /\ Return(t, IF status = 0 THEN TransportError ELSE HttpError(status))
          /\ UNCHANGED <<fp, gets, bodyFail, extra_delays>>
  /\ UNCHANGED <<respect_robots, urls, out, allowedRes, acquired, cache,
                 robotsGets, limiters>>
  /\ UNCHANGED <<pvars, xvars>>

Response(t) ==
  \E status \in Statuses, header \in RetryAfterHeaders, bodyOk \in BOOLEAN :
    /\ (status # 200 => bodyOk)
    /\ (~IsBlocked(status) => header = "")
    /\ Respond(t, status, header, bodyOk)

\* fetch_batch, after gather: one outcome per task in the order of urls,
\* an error outcome in the place of an exception
BatchOut_DropRaised(pcs, res) ==
  SelectSeq([t \in Tasks |-> res[t]], LAMBDA r : r # NoResult)

BatchOut(pcs, res) ==
  [t \in Tasks |-> IF pcs[t] = "raised" THEN TransportError ELSE res[t]]

\* asyncio.gather(*tasks, return_exceptions=True) returns when every task
\* has returned or raised, and fetch_batch returns the list
FetchBatchReturn ==
  /\ out = << >>
  /\ \A t \in Tasks : pc[t] \in {"done", "raised"}
  /\ out' = BatchOut(pc, result)
  /\ UNCHANGED <<respect_robots, urls, pc, fp, gets, resps, bodyFail,
                 allowedRes, result, acquired, released, cache, robotsGets,
                 semaphores, limiters, extra_delays, globalFree>>
  /\ UNCHANGED <<pvars, xvars>>

NextFetch ==
  \/ \E t \in Tasks :
       \/ FetchStart(t)
       \/ RobotsFetched(t)
       \/ SemAcquire(t)
       \/ AcquireReturn(t)
       \/ GlobalEnter(t)
       \/ Response(t)
  \/ FetchBatchReturn

SpecFetch == InitFetch /\ [][NextFetch]_vars

\* the event loop runs every task that is ready, and every awaited network
\* call returns: a task that can take its next step takes it
SpecFetchLive ==
  /\ InitFetch
  /\ [][NextFetch]_vars
  /\ \A t \in Tasks :
       WF_vars(FetchStart(t) \/ RobotsFetched(t) \/ SemAcquire(t)
                 \/ AcquireReturn(t) \/ GlobalEnter(t) \/ Response(t))
  /\ WF_vars(FetchBatchReturn)

(***************************************************************************)
(* SpecThrottle: report_success and report_failure called in any order on  *)
(* a DomainThrottler, and the throttlers of successive frontier levels.    *)
(***************************************************************************)
\* the max_delay values a DomainThrottler is constructed with, in seconds
MaxDelays == {Secs(0), Secs(3), Secs(MaxDelay)}

\* the statuses report_failure is called with
ReportedStatuses == {429, 403, 500, 404}

\* the retry_after arguments: None, or a number of seconds
RetryAfters == {NONE, 0, 2, 40}

\* DomainThrottler.__init__
NewThrottler(max_delay) == [max_delay |-> max_delay, extra_delays |-> << >>]

NoCall ==
  [op |-> "none", domain |-> "", status |-> NONE, retry_after |-> NONE,
   before |-> Secs(0)]

InitThrottle ==
  /\ throttler \in {NewThrottler(m) : m \in MaxDelays}
  /\ tlevel = 1
  /\ tcalls = 0
  /\ tlast = NoCall
  /\ DedupQuiet
  /\ SearchQuiet
  /\ FetchQuiet
  /\ RunQuiet

\* throttler.report_success(d)
ReportSuccessCall(d) ==
  /\ tcalls < MaxCalls
  /\ throttler' = [throttler EXCEPT !.extra_delays = ReportSuccess(@, d)]
  /\ tcalls' = tcalls + 1
  /\ tlast' = [op |-> "success", domain |-> d, status |-> NONE,
               retry_after |-> NONE,
               before |-> DelayOf(throttler.extra_delays, d)]
  /\ UNCHANGED <<tlevel, dvars, svars, fvars, pvars>>

\* throttler.report_failure(d, status, retry_after)
ReportFailureCall(d, status, retry_after) ==
  /\ tcalls < MaxCalls
  /\ throttler' = [throttler EXCEPT !.extra_delays =
                     report_failure(@, d, status, retry_after,
                                    throttler.max_delay)]
  /\ tcalls' = tcalls + 1
  /\ tlast' = [op |-> "failure", domain |-> d, status |-> status,
               retry_after |-> retry_after,
               before |-> DelayOf(throttler.extra_delays, d)]
  /\ UNCHANGED <<tlevel, dvars, svars, fvars, pvars>>

\* run(): the next frontier level constructs its own
\* DomainThrottler(max_per_domain=...), with the default max_delay
NewLevel ==
  /\ tlevel < MaxLevels
  /\ throttler' = NewThrottler(Secs(MaxDelay))
  /\ tlevel' = tlevel + 1
  /\ tlast' = [NoCall EXCEPT !.op = "new"]
  /\ UNCHANGED <<tcalls, dvars, svars, fvars, pvars>>

NextThrottle ==
  \/ \E d \in Domains : ReportSuccessCall(d)
  \/ \E d \in Domains, status \in ReportedStatuses, ra \in RetryAfters :
        ReportFailureCall(d, status, ra)
  \/ NewLevel

SpecThrottle == InitThrottle /\ [][NextThrottle]_vars

(***************************************************************************)
(* SpecDedup: mark_seen, save and load called on a Deduplicator; dd2 is    *)
(* the fresh instance the file was loaded into, with the document it read. *)
(***************************************************************************)
InitDedup ==
  /\ dd \in {NewDeduplicator(has_datasketch) : has_datasketch \in BOOLEAN}
  /\ dd_file = << >>
  /\ dd2 = << >>
  /\ marked = {}
  /\ ThrottleQuiet
  /\ SearchQuiet
  /\ FetchQuiet
  /\ RunQuiet

\* dd.mark_seen(u, content)
MarkSeenCall(u, content) ==
  /\ Cardinality(marked) < MaxMarks
  /\ <<u, content>> \notin marked
  /\ dd' = MarkSeen(dd, u, content)
  /\ marked' = marked \cup {<<u, content>>}
  /\ UNCHANGED <<dd_file, dd2, tvars, svars, fvars, pvars>>

\* dd.save(path)
SaveCall ==
  /\ dd_file' = <<Save(dd)>>
  /\ UNCHANGED <<dd, dd2, marked, tvars, svars, fvars, pvars>>

\* Deduplicator().load(path) in the same environment; load returns at once
\* when the file does not exist
LoadCall ==
  /\ dd2' = IF dd_file = << >>
              THEN <<NewDeduplicator(dd.lsh.on)>>
              ELSE <<LoadDedup(NewDeduplicator(dd.lsh.on), dd_file[1]),
                     dd_file[1]>>
  /\ UNCHANGED <<dd, dd_file, marked, tvars, svars, fvars, pvars>>

NextDedup ==
  \/ \E u \in DUrls, content \in DTexts : MarkSeenCall(u, content)
  \/ SaveCall
  \/ LoadCall

SpecDedup == InitDedup /\ [][NextDedup]_vars

(***************************************************************************)
(* SpecCheckpoint: mark_query_done, mark_url_fetched, mark_url_failed and  *)
(* save called on a Checkpoint, from a new instance and no file.           *)
(***************************************************************************)
InitCheckpoint ==
  /\ RunQuiet
  /\ FetchQuiet
  /\ ThrottleQuiet
  /\ DedupQuiet
  /\ SearchQuiet

\* save() from start to end: json.dump to the temporary file, os.replace
SaveFiles(fs, c) ==
  Replace([fs EXCEPT ![TmpPath(CheckpointPath)] = Encode(c)],
          TmpPath(CheckpointPath), CheckpointPath)

\* checkpoint.mark_query_done(q), which saves
MarkQueryDoneCall(q) ==
  /\ ckpt.stats.total_queries < MaxMarks
  /\ ckpt' = MarkQueryDone(ckpt, q)
  /\ files' = SaveFiles(files, ckpt')
  /\ UNCHANGED <<runs, config, queries, rpc, after, qi, dedup, exclusions,
                 domain_page_counts, written, uvars, hvars, fvars, xvars>>

\* checkpoint.mark_url_fetched(u)
MarkUrlFetchedCall(u) ==
  /\ ckpt' = MarkUrlFetched(ckpt, u)
  /\ UNCHANGED <<runs, config, queries, files, rpc, after, qi, dedup,
                 exclusions, domain_page_counts, written, uvars, hvars, fvars,
                 xvars>>

\* checkpoint.mark_url_failed(u)
MarkUrlFailedCall(u) ==
  /\ ckpt.stats.failed_fetches < MaxMarks
  /\ ckpt' = MarkUrlFailed(ckpt, u)
  /\ UNCHANGED <<runs, config, queries, files, rpc, after, qi, dedup,
                 exclusions, domain_page_counts, written, uvars, hvars, fvars,
                 xvars>>

\* checkpoint.save()
CheckpointSaveCall ==
  /\ files' = SaveFiles(files, ckpt)
  /\ UNCHANGED <<runs, config, queries, ckpt, rpc, after, qi, dedup,
                 exclusions, domain_page_counts, written, uvars, hvars, fvars,
                 xvars>>

NextCheckpoint ==
  \/ \E q \in 1..NumQueries : MarkQueryDoneCall(q)
  \/ \E u \in PUrls \ {U1s} : MarkUrlFetchedCall(u)
  \/ \E u \in PUrls \ {U1s} : MarkUrlFailedCall(u)
  \/ CheckpointSaveCall

SpecCheckpoint == InitCheckpoint /\ [][NextCheckpoint]_vars

(***************************************************************************)
(* SpecSearch: search() called on a DDGSearcher without Tor.  A call is    *)
(* given by what the attempts of _do_search_with_retry meet, in order.     *)
(***************************************************************************)
\* number of search() calls made on the searcher
MaxSearches == 3

\* for attempt in range(3)
RetryAttempts == 3

\* what one call of _do_search_inner does: it returns results, returns an
\* empty list, raises RatelimitException, or raises another exception
AttemptReturns == {"results", "empty"}

AttemptRaises == {"ratelimit", "error"}

\* the attempts of one _do_search_with_retry: every attempt but the last
\* raised, and the last returned unless it is the third
AttemptSeqs ==
  { a \in UNION { [1..n -> AttemptReturns \cup AttemptRaises] :
                    n \in 1..RetryAttempts } :
      /\ \A i \in 1..(Len(a) - 1) : a[i] \in AttemptRaises
      /\ Len(a) < RetryAttempts => a[Len(a)] \in AttemptReturns }

\* 2 ** n
Pow2(n) == IF n = 0 THEN 1 ELSE IF n = 1 THEN 2 ELSE IF n = 2 THEN 4 ELSE 8

\* the time.sleep of attempt number i (from 0) that raised: 10 * 2 ** i
\* after a rate limit, 2 ** (i + 1) after another exception unless it is
\* the last attempt (0: no sleep)
RetryWait(outcome, i) ==
  IF outcome = "ratelimit" THEN 10 * Pow2(i)
  ELSE IF outcome = "error" /\ i < 2 THEN Pow2(i + 1)
  ELSE 0

\* _do_search_with_retry: the list returned (raw results or the empty list)
RetryResult(a) == IF a[Len(a)] = "results" THEN "results" ELSE "empty"

\* whether an attempt of the call raised RatelimitException
HitRatelimit(a) == \E i \in DOMAIN a : a[i] = "ratelimit"

\* the waits of the retry loop, in order
RetrySleeps(a) ==
  SelectSeq([i \in DOMAIN a |-> RetryWait(a[i], i - 1)], LAMBDA w : w > 0)

\* the extra cooldown of the pre-delay: self._consecutive_ratelimits * 15
Cooldown(n) == n * 15

\* search, after _do_search_with_retry returned raw:
\*   if raw: self._consecutive_ratelimits = max(0, self._consecutive_ratelimits - 1)
\*   else: self._consecutive_ratelimits += 1
AfterSearch(n, raw) ==
  IF raw = "results" THEN (IF n - 1 > 0 THEN n - 1 ELSE 0) ELSE n + 1

InitSearch ==
  /\ SearchQuiet
  /\ ThrottleQuiet
  /\ DedupQuiet
  /\ FetchQuiet
  /\ RunQuiet

\* searcher.search(query, max_results), whose attempts meet a
Search(a) ==
  /\ searches < MaxSearches
  /\ searches' = searches + 1
  /\ consecutive_ratelimits' = AfterSearch(consecutive_ratelimits, RetryResult(a))
  /\ last_search' = [before |-> consecutive_ratelimits,
                     attempts |-> a,
                     raw |-> RetryResult(a),
                     hit |-> HitRatelimit(a),
                     sleeps |-> <<Cooldown(consecutive_ratelimits)>>
                                  \o RetrySleeps(a)]
  /\ UNCHANGED <<tvars, dvars, fvars, pvars>>

NextSearch == \E a \in AttemptSeqs : Search(a)

SpecSearch == InitSearch /\ [][NextSearch]_vars

(***************************************************************************)
(* Properties of SpecFetch.                                                *)
(***************************************************************************)
\* the tasks of a domain that returned from acquire and did not release yet
Holders(d) == {t \in Tasks : urls[t].domain = d /\ acquired[t] > released[t]}

\* the tasks performing the GET of their URL (first attempt or retry)
Getting == {t \in Tasks : pc[t] = "get"}

\* the tasks of a domain whose fetch is in flight
InFlight(d) == {t \in Tasks : urls[t].domain = d /\ pc[t] \notin {"start", "done"}}

\* C1: a fetch that reaches the network issues a second GET if and only if
\* the first answer is 403 or 429; the second GET carries the profile at the
\* next index (mod N), a different one; there is never a third GET; and the
\* outcome returned is that of the last attempt (success for a 200, the
\* blocked status with an error when the retry is blocked again).
C1_RetryExactlyOnce ==
  \A t \in Tasks :
    /\ Len(gets[t]) <= 2
    /\ Len(resps[t]) <= Len(gets[t])
    /\ (Len(gets[t]) = 2 <=> (Len(resps[t]) >= 1 /\ resps[t][1] \in {403, 429}))
    /\ (Len(gets[t]) = 2 =>
          /\ gets[t][2] = (gets[t][1] + 1) % NumFingerprints
          /\ gets[t][2] # gets[t][1])
    /\ (pc[t] = "done" /\ Len(gets[t]) >= 1 =>
          LET last == resps[t][Len(resps[t])] IN
          /\ Len(resps[t]) = Len(gets[t])
          /\ result[t].status = (IF last = 200 /\ bodyFail[t] THEN 0 ELSE last)
          /\ (last = 200 /\ ~bodyFail[t] => result[t].error = "")
          /\ (last \in {403, 429} => result[t].error = "HTTP"))

\* a fetch whose retry was blocked again has returned
C1_Witness ==
  \E t \in Tasks :
    /\ pc[t] = "done"
    /\ resps[t] = <<403, 429>>
    /\ gets[t] = <<NumFingerprints - 1, 0>>
    /\ result[t].status = 429

C2_State ==
  \A t \in Tasks :
    (respect_robots /\ allowedRes[t] = "no") =>
      /\ pc[t] = "done"
      /\ result[t].status = 0
      /\ result[t].error = "robots.txt disallowed"
      /\ gets[t] = << >>
      /\ acquired[t] = 0

C2_Step ==
  \A t \in Tasks :
    (respect_robots /\ pc'[t] # pc[t]
       /\ (pc'[t] = "robots_get" \/ allowedRes'[t] = "no")) =>
      UNCHANGED <<semaphores, limiters, extra_delays, gets, acquired>>

\* C2: with robots compliance enabled, a fetch whose is_allowed answer is
\* false returns the error outcome (status 0, "robots.txt disallowed");
\* no GET of the URL is issued, acquire is never called, and no step of that
\* call changes the throttle state.
C2_RobotsDeniedNoFetch == [] C2_State /\ [][C2_Step]_vars

\* a fetch was denied by robots.txt while another task of the same origin,
\* whose URL is allowed, went on to the network
C2_Witness ==
  \E t, o \in Tasks :
    /\ respect_robots
    /\ allowedRes[t] = "no" /\ pc[t] = "done"
    /\ urls[o].domain = urls[t].domain /\ allowedRes[o] = "yes"
    /\ Len(gets[o]) >= 1

\* C3: the tasks of one domain that returned from acquire and have not yet
\* released never exceed max_per_domain, also during a 403/429 retry.
C3_PerDomainCeiling ==
  \A d \in Domains : Cardinality(Holders(d)) <= MaxPerDomain

\* a task is retrying after a block while holding the domain at its ceiling,
\* and another task was started
C3_Witness ==
  \E t, o \in Tasks :
    /\ o # t /\ pc[o] # "start"
    /\ pc[t] = "get" /\ Len(gets[t]) = 2
    /\ Cardinality(Holders(urls[t].domain)) = MaxPerDomain

\* C4: the tasks performing the GET of their URL never exceed
\* max_concurrent_total, whatever the number of domains.
C4_GlobalCeiling == Cardinality(Getting) <= MaxConcurrentTotal

\* the ceiling is reached while a task of another domain holds its domain
\* slot and waits for the process-wide one
C4_Witness ==
  \E t, o \in Tasks :
    /\ urls[t].domain # urls[o].domain
    /\ pc[t] = "get" /\ pc[o] = "global_wait"
    /\ Cardinality(Getting) = MaxConcurrentTotal

\* C5: every fetch whose acquire completed releases exactly once before it
\* returns, whatever the outcome; hence a domain with no fetch in flight has
\* all max_per_domain slots free.
C5_ReleaseExactlyOnce ==
  /\ \A t \in Tasks :
       /\ released[t] <= acquired[t]
       /\ acquired[t] <= 1
       /\ (pc[t] = "done" => released[t] = acquired[t])
       /\ (pc[t] # "done" => released[t] = 0)
  /\ \A d \in DOMAIN semaphores :
       InFlight(d) = {} => semaphores[d] = MaxPerDomain

\* a domain is idle again after fetches that ended with a transport
\* exception and with a blocked retry
C5_Witness ==
  \E t, o \in Tasks :
    /\ urls[t].domain = urls[o].domain
    /\ InFlight(urls[t].domain) = {}
    /\ released[t] = 1 /\ result[t].error = "exception"
    /\ released[o] = 1 /\ Len(gets[o]) = 2 /\ result[o].error = "HTTP"
    /\ semaphores[urls[t].domain] = MaxPerDomain


(***************************************************************************)
(* Properties of the checkpoint and of runs                                *)
(***************************************************************************)
\* what load() of the checkpoint path into a fresh instance yields now
OnDisk == LoadFresh(files)

\* c2 holds every mark of c1: units, fetched URLs, failure counts, counters
Covers(c2, c1) ==
  /\ c1.completed_queries \subseteq c2.completed_queries
  /\ c1.fetched_urls \subseteq c2.fetched_urls
  /\ \A u \in DOMAIN c1.failed_urls : FailCount(c2, u) >= c1.failed_urls[u]
  /\ c2.stats.total_queries >= c1.stats.total_queries
  /\ c2.stats.total_pages >= c1.stats.total_pages
  /\ c2.stats.total_words >= c1.stats.total_words
  /\ c2.stats.failed_fetches >= c1.stats.failed_fetches
  /\ c2.stats.failed_extractions >= c1.stats.failed_extractions

\* C6: once save() has been called, and whether or not the process has been
\* killed at any of its steps, load() of the checkpoint path into a fresh
\* instance yields exactly the state saved before the call or exactly the
\* state being saved, and never fails on a partial file.
C6_SaveAtomic ==
  /\ OnDisk # Corrupt
  /\ saving.active => OnDisk \in {saving.old, saving.new}

\* C6 case: killed inside save(), the temporary file half written, with an
\* earlier state on disk that differs from the one being saved
C6_Witness ==
  /\ rpc = "crashed"
  /\ saving.active
  /\ files[TmpPath(CheckpointPath)] = Truncated
  /\ files[CheckpointPath] # Absent
  /\ saving.old # saving.new
  /\ OnDisk = saving.old

\* the unit the loop is at
InProgress == {queries[i] : i \in {qi} \cap DOMAIN queries}

\* C7: at every point of a run, also after a kill, the checkpoint on disk
\* holds every unit whose mark_query_done has returned in this run with all
\* marks and counters recorded before that call; what the memory of a live
\* process holds beyond the disk belongs to the unit in progress.
C7_IncrementalPersistence ==
  /\ returned # {} =>
       /\ OnDisk # Corrupt
       /\ returned \subseteq OnDisk.completed_queries
       /\ Covers(OnDisk, snap)
  /\ (rpc \notin {"idle", "crashed"} /\ returned # {}) =>
       /\ ckpt.completed_queries \ OnDisk.completed_queries \subseteq InProgress
       /\ ckpt.fetched_urls \ OnDisk.fetched_urls \subseteq all_seen_urls

\* C7 case: killed while the second unit is in progress, after the first
\* unit's mark_query_done returned with fetched URLs and a failure recorded
C7_Witness ==
  /\ rpc = "crashed"
  /\ returned # {}
  /\ snap.fetched_urls # {}
  /\ DOMAIN snap.failed_urls # {}
  /\ fetchedFor \ returned # {}
  /\ OnDisk = snap

\* the units the loop has gone past in this run
Passed == {queries[i] : i \in 1..(IF qi = 0 THEN 0 ELSE qi - 1)}

\* C8 as stated: in a later run with resume enabled, no unit the checkpoint
\* file recorded as completed is searched or fetched for.
C8_ResumeSkips_AsStated ==
  (runs >= 2 /\ config.resume /\ rpc # "boot") =>
     (searched \cup fetchedFor) \cap doneAtStart = {}

\* C8: in a later run with resume enabled and reset_queries not set, every
\* unit the checkpoint file recorded as completed is skipped without a search
\* or a fetch, and any unit searched was not recorded as completed.
C8_ResumeSkips ==
  (runs >= 2 /\ config.resume /\ ~config.reset_queries /\ rpc # "boot") =>
     /\ (searched \cup fetchedFor) \cap doneAtStart = {}
     /\ Passed \cap doneAtStart \subseteq skipped
     /\ qi > 0 => loadedDone = doneAtStart

\* C8 case: the second run, resuming, has skipped the unit the first run
\* completed and has searched and fetched for the other one
C8_Witness ==
  /\ runs = 2
  /\ config.resume
  /\ ~config.reset_queries
  /\ rpc = "done"
  /\ doneAtStart # {}
  /\ skipped = doneAtStart
  /\ searched # {}
  /\ fetchedFor # {}

\* the checkpoint at the end of a run: in memory, the units completed before
\* the run plus those processed in it, which are all the units of the input
\* file; on disk, the same state
EndOK ==
  /\ ckpt.completed_queries =
       (IF config.resume THEN doneAtStart ELSE {}) \cup processed
  /\ loadedDone \subseteq doneAtStart
  /\ Range(queries) \subseteq ckpt.completed_queries
  /\ processed \subseteq Range(queries)
  /\ OnDisk = ckpt

\* C9: a run whose collaborators all return, and that is not killed, ends;
\* at its end the checkpoint in memory and on disk lists as completed
\* exactly the units completed before the run and those processed in it,
\* whatever the number of failed fetches and failed extractions.
C9_RunCompletes ==
  /\ [](rpc = "done" => EndOK)
  /\ (rpc = "boot") ~> (rpc \in {"done", "crashed"})

\* C9 case: a resumed run ends with a unit completed before it, a unit
\* processed in it, a failed fetch and a failed extraction
C9_Witness ==
  /\ rpc = "done"
  /\ loadedDone # {}
  /\ processed # {}
  /\ DOMAIN ckpt.failed_urls # {}
  /\ ckpt.stats.failed_extractions > 0

\* C10 as stated: a search call that raises does not abort the run, and its
\* unit is marked done in the checkpoint.
C10_SearchRaiseCaught ==
  raised # {} =>
     /\ rpc # "aborted"
     /\ raised \subseteq ckpt.completed_queries

(***************************************************************************)
(* Properties of the DomainThrottler called directly                       *)
(***************************************************************************)
\* the extra delay of the domain of the last call, after the call
DelayNow == DelayOf(throttler.extra_delays, tlast.domain)

\* twice the delay, 1.0 standing in for a delay of zero
Doubled(x) == IF x[1] = 0 THEN Secs(2) ELSE Times(x, 2, 1)

\* C11: whatever max_delay is, a report_failure(domain, 429) without
\* retry_after leaves twice the delay before it (twice 1.0 when that was
\* zero), or exactly max_delay when twice would exceed it, also when the
\* delay was max_delay already; a report_success leaves half the delay
\* before it, which is never negative.
C11_DoubleAndHalve ==
  /\ (tlast.op = "failure" /\ tlast.status = 429 /\ tlast.retry_after = NONE) =>
       DelayNow = IF Leq(Doubled(tlast.before), throttler.max_delay)
                    THEN Doubled(tlast.before)
                    ELSE throttler.max_delay
  /\ tlast.op = "success" =>
       /\ DelayNow = Times(tlast.before, 1, 2)
       /\ Leq(Secs(0), DelayNow)

\* C11 case: a 429 without retry_after on a domain whose delay is max_delay
\* (3 seconds, reached by doubling from zero) leaves it at max_delay
C11_Witness ==
  /\ tlast.op = "failure"
  /\ tlast.status = 429
  /\ tlast.retry_after = NONE
  /\ throttler.max_delay = Secs(3)
  /\ tlast.before = Secs(3)
  /\ DelayNow = Secs(3)

\* C12: after any sequence of report_success and report_failure calls, with
\* any status and any retry_after >= 0, every recorded extra delay is
\* between 0 and max_delay.
C12_DelayInRange ==
  \A d \in DOMAIN throttler.extra_delays :
    /\ Leq(Secs(0), throttler.extra_delays[d])
    /\ Leq(throttler.extra_delays[d], throttler.max_delay)

\* C12 case: a 429 whose retry_after exceeds max_delay has been capped
C12_Witness ==
  /\ tlast.op = "failure"
  /\ tlast.status = 429
  /\ tlast.retry_after = 40
  /\ DelayNow = Secs(MaxDelay)

\* C13 as stated: a report_failure with status 429, 403 or 5xx, with or
\* without retry_after, never lowers the extra delay of the domain and
\* raises it unless it was max_delay already.
C13_FailureNeverLowers ==
  (tlast.op = "failure" /\ (tlast.status \in {429, 403} \/ tlast.status >= 500)) =>
     /\ Leq(tlast.before, DelayNow)
     /\ tlast.before # throttler.max_delay => tlast.before # DelayNow

\* C15 as stated: the extra delay a domain has accrued when a frontier
\* level ends is the delay acquire applies to it in the next level.
C15_DelayCarriedOver ==
  [][tlevel' # tlevel =>
       \A d \in Domains : DelayOf(throttler'.extra_delays, d)
                            = DelayOf(throttler.extra_delays, d)]_vars


(***************************************************************************)
(* Properties of SpecFetch: the throttler and the robots cache of a batch  *)
(***************************************************************************)
\* C14 as stated: a fetch answered with a 5xx status is not retried, and
\* the failure is reported to the throttler: the extra delay of the domain
\* becomes 1.25 times what it was (1.0 standing in for zero), capped at
\* max_delay.
C14_ServerErrorPenalized ==
  [][\A t \in Tasks :
       (Len(resps'[t]) = Len(resps[t]) + 1 /\ resps'[t][Len(resps'[t])] >= 500) =>
         /\ pc'[t] = "done"
         /\ gets'[t] = gets[t]
         /\ DelayOf(extra_delays', urls[t].domain)
              = DelayOf(ReportFailure(extra_delays, urls[t].domain, 500, NONE),
                        urls[t].domain)]_vars

\* C16 as stated: in any interleaving of the is_allowed calls of a batch,
\* at most one GET of robots.txt is issued per origin.
C16_OneRobotsGetPerOrigin == \A d \in Domains : robotsGets[d] <= 1

\* C17 as stated: once the robots.txt request of an origin failed (and the
\* permissive sentinel is cached), is_allowed answers true for every URL of
\* the origin from then on, and no further robots.txt request is issued.
C17_FailOpenForGood ==
  [][\A d \in DOMAIN cache :
       cache[d] = NoParser =>
         /\ \A path \in Tasks : IsAllowed(cache', Url(d, path))
         /\ \A t \in Tasks :
              (urls[t].domain = d /\ allowedRes'[t] # allowedRes[t])
                 => allowedRes'[t] = "yes"
         /\ robotsGets'[d] = robotsGets[d]]_vars


(***************************************************************************)
(* Properties of SpecDedup                                                 *)
(***************************************************************************)
\* C18 as stated: after mark_seen(url, content) returned, is_duplicate_url
\* (url) and is_duplicate_content(content) are true, for every URL and
\* every content text.
C18_MarkedIsDuplicate_AsStated ==
  \A p \in marked : IsDuplicateUrl(dd, p[1]) /\ IsDuplicateContent(dd, p[2])

\* C18: after mark_seen(url, content) returned, is_duplicate_url(url) is
\* true for every URL, and is_duplicate_content(content) is true for every
\* content text that is not the empty string.
C18_MarkedIsDuplicate ==
  \A p \in marked :
    /\ IsDuplicateUrl(dd, p[1])
    /\ p[2] # Empty => IsDuplicateContent(dd, p[2])

\* C18 case: a blank content and a content of nine words have been marked,
\* without the near-duplicate index in the second case
C18_Witness ==
  /\ \E p \in marked : p[2] = Blank
  /\ \E p \in marked : p[2] = Long9
  /\ ~dd.lsh.on

\* the spellings are the same up to letter case, or up to the fragment, or
\* up to one trailing "/"
DifferOnlyIn(s1, s2) ==
  \/ Len(s1) = Len(s2) /\ Lower(s1) = Lower(s2)
  \/ Defrag(s1) = Defrag(s2)
  \/ s1 = s2 \o <<"/">> \/ s2 = s1 \o <<"/">>

\* C19: a URL that differs from a marked URL only in letter case, only in
\* the fragment or only in a trailing slash is a duplicate; a URL whose
\* normalized form is the normalized form of no marked URL is not.
C19_UrlIdentity ==
  \A v \in DUrls :
    /\ \A p \in marked :
         DifferOnlyIn(Spelling(p[1]), Spelling(v)) => IsDuplicateUrl(dd, v)
    /\ (\A p \in marked : NormalizeUrl(p[1]) # NormalizeUrl(v))
            => ~IsDuplicateUrl(dd, v)

\* C19 case: the upper-case spelling was marked; the lower-case spelling
\* with a fragment is a duplicate and the URL of a sub-page is not
C19_Witness ==
  /\ marked = {<<"https://EX.com/A", TextOne>>}
  /\ IsDuplicateUrl(dd, "https://ex.com/a#x/")
  /\ ~IsDuplicateUrl(dd, "https://ex.com/a/b")

\* C20: a fresh instance that loaded the file save wrote answers
\* is_duplicate_url and is_duplicate_content, exact and near-duplicate, as
\* the saving instance does.
C20_SaveLoadRoundTrip ==
  (Len(dd2) = 2 /\ dd2[2] = Save(dd)) =>
     /\ \A u \in DUrls : IsDuplicateUrl(dd2[1], u) = IsDuplicateUrl(dd, u)
     /\ \A content \in DTexts :
          IsDuplicateContent(dd2[1], content) = IsDuplicateContent(dd, content)

\* C20 case: the loaded instance finds the near-duplicate of a saved text
\* whose exact hash it does not hold
C20_Witness ==
  /\ Len(dd2) = 2
  /\ dd2[2] = Save(dd)
  /\ marked = {<<"https://ex.com/a", Long9>>}
  /\ HashContent(Long8) \notin dd2[1].seen_content
  /\ IsDuplicateContent(dd2[1], Long8)

(***************************************************************************)
(* Properties of SpecRun: the Deduplicator and the checkpoint of a resumed *)
(* run                                                                     *)
(***************************************************************************)
\* C21 as stated: a resumed run loads the Deduplicator of the earlier run at
\* start: when the loaded checkpoint counts pages accepted by the earlier
\* run, the Deduplicator of the resumed run holds their URLs before the
\* first unit is searched.
C21_DedupLoadedOnResume ==
  (/\ config.resume
   /\ ~config.reset_queries
   /\ rpc = "loop"
   /\ searched = {}
   /\ ckpt.stats.total_pages > 0) => dedup.seen_urls # {}

(***************************************************************************)
(* Properties of SpecCheckpoint                                            *)
(***************************************************************************)
\* C22: for every state the mark_* calls reach, a fresh instance that loads
\* the file save() writes gives the same is_query_done for every unit, the
\* same is_url_fetched, failure count and should_retry for every URL, and
\* the same counters.
C22_CheckpointRoundTrip ==
  LET fresh == LoadFresh(SaveFiles(files, ckpt)) IN
  /\ \A q \in 1..NumQueries : IsQueryDone(fresh, q) = IsQueryDone(ckpt, q)
  /\ \A u \in PUrls :
       /\ IsUrlFetched(fresh, u) = IsUrlFetched(ckpt, u)
       /\ FailCount(fresh, u) = FailCount(ckpt, u)
       /\ ShouldRetryUrl(fresh, u, MaxRetries)
            = ShouldRetryUrl(ckpt, u, MaxRetries)
  /\ fresh.stats = ckpt.stats

\* C22 case: two units done, three URLs fetched, one URL failed twice, and
\* the file on disk is the one save() wrote for this state
C22_Witness ==
  /\ rpc = "idle"
  /\ ckpt.completed_queries = {1, 2}
  /\ ckpt.fetched_urls = {U1, U2, UX}
  /\ FailCount(ckpt, U1) = 2
  /\ files = SaveFiles(files, ckpt)

(***************************************************************************)
(* Properties of SpecRun: reset, retries, levels, caps and the writer      *)
(***************************************************************************)
\* C23: when reset_queries has saved, no unit is completed and the five
\* counters are zero, the fetched URLs and the failure counts are those of
\* the state that was loaded, and a fresh instance loading the file sees no
\* unit done and the same URL history.
C23_ResetKeepsUrlHistory ==
  (rpc = "save_return" /\ after = "load_queries") =>
     LET fresh == LoadFresh(files) IN
     /\ ckpt.completed_queries = {}
     /\ ckpt.stats = FreshStats
     /\ ckpt.fetched_urls = saving.old.fetched_urls
     /\ ckpt.failed_urls = saving.old.failed_urls
     /\ \A q \in Range(queries) : ~IsQueryDone(fresh, q)
     /\ fresh.stats = FreshStats
     /\ fresh.fetched_urls = saving.old.fetched_urls
     /\ fresh.failed_urls = saving.old.failed_urls

\* C23 case: the reset checkpoint had a completed unit, fetched URLs and a
\* failed URL
C23_Witness ==
  /\ rpc = "save_return"
  /\ after = "load_queries"
  /\ saving.old.completed_queries # {}
  /\ saving.old.fetched_urls # {}
  /\ saving.old.failed_urls # << >>
  /\ saving.old.stats.total_pages > 0

\* C24 as stated: in a resumed run that has not fetched yet, a URL the
\* search returns whose earlier fetch failed and whose failure count is
\* below the retry budget is among the URLs to fetch, unless its domain is
\* excluded.
C24_FailedUrlRetried ==
  (rpc = "search" /\ config.resume /\ runs > 1 /\ fetchedFor = {}) =>
     \A search_results \in SearchOutcomes :
       \A u \in Range(search_results) :
         (/\ FailCount(ckpt, u) >= 1
          /\ ShouldRetryUrl(ckpt, u, MaxRetries)
          /\ ExtractDomain(u) \notin exclusions)
            => u \in Range(FilterResults(search_results, exclusions, ckpt, dedup))

\* C25: no URL handed to fetch_batch has a recorded fetch failure: a URL
\* whose fetch outcome was an error is not fetched again, at a later depth
\* or in a later unit.
C25_FailedUrlNotRefetched ==
  rpc = "fetch" => \A u \in Range(urls_to_fetch) : FailCount(ckpt, u) = 0

\* C25 case: in the first run the fetch of U2 failed in the first unit; the
\* search of the second unit returned U1 and U2 and only U1 is fetched
C25_Witness ==
  /\ runs = 1
  /\ qi = 2
  /\ rpc = "fetch"
  /\ current_depth = 0
  /\ FailCount(ckpt, U2) = 1
  /\ urls_to_fetch = <<U1>>

\* C26: the fetch of a frontier level of depth N+1 starts only at the end of
\* level N, when every outcome of level N has been processed and every URL
\* of level N is marked fetched, and it fetches the links level N found.
C26_LevelsSequenced ==
  [][(rpc' = "fetch" /\ current_depth' > 0 /\ current_depth' # current_depth) =>
       /\ rpc = "level_end"
       /\ current_depth' = current_depth + 1
       /\ k = Len(urls_to_fetch) + 1
       /\ \A u \in Range(urls_to_fetch) : IsUrlFetched(ckpt, u)
       /\ urls_to_fetch' = next_depth_urls]_vars

\* C26 case: the level of depth 1 is about to be fetched
C26_Witness ==
  /\ rpc = "fetch"
  /\ current_depth = 1
  /\ urls_to_fetch # << >>

\* C27: filter_links_same_domain returns no URL whose host has a page count
\* at or above the cap, and no link is appended to the next frontier level
\* while the page count of its host is at or above the cap.
C27_CapStopsEnqueue ==
  /\ [](\A page \in PUrls :
          \A link \in Range(filter_links_same_domain(LinksOf(page),
                              ExtractDomain(page), exclusions, all_seen_urls,
                              domain_page_counts, MaxPagesPerDomain)) :
            Count(domain_page_counts, ExtractDomain(link)) < MaxPagesPerDomain)
  /\ [][\A i \in DOMAIN next_depth_urls' :
          i > Len(next_depth_urls) =>
            Count(domain_page_counts', ExtractDomain(next_depth_urls'[i]))
              < MaxPagesPerDomain]_vars

\* C27 case: both pages of depth 0 were counted for a.com, which reaches the
\* cap; the link U1s of the last page, not seen before, was not enqueued
C27_Witness ==
  /\ config.crawl
  /\ rpc = "level_end"
  /\ current_depth = 0
  /\ urls_to_fetch = <<U1, U2>>
  /\ Count(domain_page_counts, "a.com") = MaxPagesPerDomain
  /\ U1s \notin all_seen_urls
  /\ ~IsUrlFetched(ckpt, U1s)
  /\ next_depth_urls = << >>

\* C28 as stated: in a run with crawling enabled the number of pages
\* fetched from a host never exceeds max_pages_per_domain.
C28_PagesPerHostCapped ==
  config.crawl =>
    \A u \in PUrls :
      Count(domain_page_counts, ExtractDomain(u)) <= MaxPagesPerDomain

\* C29 as stated: a page whose extraction failed or fell below the minimum
\* word count is counted as a failed extraction, gives no record, is not
\* marked seen, and none of its links is enqueued.
C29_FailedExtractionSkipped ==
  [][(/\ rpc = "process"
      /\ ckpt'.stats.failed_extractions = ckpt.stats.failed_extractions + 1) =>
       /\ all_records' = all_records
       /\ dedup' = dedup
       /\ next_depth_urls' = next_depth_urls]_vars

\* C30: the output changes only when the last level of a unit ends, by
\* appending all the records accepted for the unit, once, while the unit is
\* not recorded as done; and whenever the current unit is recorded as done
\* its records are in the output.
C30_WrittenBeforeDone ==
  /\ [][(written' # written /\ written' # << >>) =>
          /\ rpc = "level_end"
          /\ next_depth_urls = << >>
          /\ written' = written \o all_records
          /\ ~IsQueryDone(ckpt, queries[qi])]_vars
  /\ [](\A q \in InProgress :
          (q \in fetchedFor /\ IsQueryDone(ckpt, q))
             => Range(all_records) \subseteq Range(written))

\* C30 case: records of two depths were written and the unit is recorded as
\* done in the checkpoint file
C30_Witness ==
  /\ qi \in DOMAIN queries
  /\ queries[qi] \in fetchedFor
  /\ current_depth = 2
  /\ Len(all_records) = 2
  /\ Range(all_records) \subseteq Range(written)
  /\ IsQueryDone(ckpt, queries[qi])
  /\ IsQueryDone(LoadFresh(files), queries[qi])

(***************************************************************************)
(* Properties of the fetch client and of the throttler, continued          *)
(***************************************************************************)
\* the free concurrency slots of a domain: those of its semaphore, all of
\* them before the semaphore is created
FreeSlots(sems, d) == IF d \in DOMAIN sems THEN sems[d] ELSE MaxPerDomain

\* the domains other than d keep their extra delay and their free slots
OthersKept(d) ==
  \A b \in Domains \ {d} :
    /\ (b \in DOMAIN extra_delays' <=> b \in DOMAIN extra_delays)
    /\ DelayOf(extra_delays', b) = DelayOf(extra_delays, b)
    /\ (b \in DOMAIN semaphores' <=> b \in DOMAIN semaphores)
    /\ FreeSlots(semaphores', b) = FreeSlots(semaphores, b)

\* C31: a step of a fetch on domain A (acquire, release, report_success,
\* report_failure) leaves the extra delay and the free slots of every other
\* domain B unchanged; a task waiting in acquire(B) finds a free slot unless
\* max_per_domain tasks of B itself hold one, whatever the state of A.
C31_DomainsIndependent ==
  /\ [][\A t \in Tasks :
          (pc'[t] # pc[t] \/ resps'[t] # resps[t]) => OthersKept(urls[t].domain)]_vars
  /\ [](\A t \in Tasks :
          (pc[t] = "sem_wait"
             /\ Cardinality(Holders(urls[t].domain) \cup
                  {o \in Tasks : urls[o].domain = urls[t].domain
                                   /\ pc[o] = "limiter"}) < MaxPerDomain)
          => SemCanAcquire(semaphores[urls[t].domain]))

\* domain A is saturated and penalised while a task of domain B, whose delay
\* was never raised, has returned from acquire
C31_Witness ==
  \E t, o \in Tasks :
    /\ urls[t].domain # urls[o].domain
    /\ pc[t] = "get" /\ Len(gets[t]) = 2
    /\ semaphores[urls[t].domain] = 0
    /\ DelayOf(extra_delays, urls[t].domain)[1] > 0
    /\ acquired[o] = 1 /\ released[o] = 0
    /\ urls[o].domain \notin DOMAIN extra_delays

\* C32: every outcome returned by fetch has not both a text and bytes; its
\* error is None if and only if its status is 200; with status 200 it has
\* exactly one of text and bytes; with an error it has neither.
C32_OutcomeShape ==
  \A t \in Tasks :
    pc[t] = "done" =>
      LET r == result[t]
          text == r.html # "none"
          bytes == r.content_bytes # "none"
      IN  /\ ~(text /\ bytes)
          /\ (r.error = "" <=> r.status = 200)
          /\ (r.status = 200 => (text /\ ~bytes) \/ (bytes /\ ~text))
          /\ (r.error # "" => ~text /\ ~bytes)

\* two fetches returned: a page as text after a blocked first attempt, and
\* a PDF as bytes
C32_Witness ==
  \E t, o \in Tasks :
    /\ pc[t] = "done" /\ resps[t] = <<429, 200>>
    /\ result[t].status = 200 /\ result[t].html = "text"
    /\ pc[o] = "done" /\ IsPdf(urls[o])
    /\ result[o].status = 200 /\ result[o].content_bytes = "bytes"

(***************************************************************************)
(* Properties of the Deduplicator, continued                               *)
(***************************************************************************)
\* the first 2000 characters of each content
FirstChars == [text \in DTexts |-> Prefix(text, HASH_PREFIX)]

\* the two texts have the same first 2000 characters
SamePrefix(t1, t2) == FirstChars[t1] = FirstChars[t2]

\* the claim as stated, for every text, the empty one included
C33_SamePrefixDuplicate_AsStated ==
  \A p \in marked, text \in DTexts :
    SamePrefix(p[2], text) => IsDuplicateContent(dd, text)

\* C33: for any two texts with the same first 2000 characters, that are not
\* the empty string, after mark_seen(url, one of them) is_duplicate_content
\* of the other is true, whatever follows the first 2000 characters.
C33_SamePrefixDuplicate ==
  \A p \in marked, text \in DTexts :
    (SamePrefix(p[2], text) /\ p[2] # Empty) => IsDuplicateContent(dd, text)

\* C33 case: "X" * 2000 + "AAAA" was marked, "X" * 2000 + "BBBB" was not,
\* and it is reported duplicate without the near-duplicate index
C33_Witness ==
  /\ ~dd.lsh.on
  /\ \E p \in marked : p[2] = XA
  /\ \A p \in marked : p[2] # XB
  /\ XA # XB /\ ~Similar(MinhashContent(XA), MinhashContent(XB))
  /\ IsDuplicateContent(dd, XB)

\* C34: when every network call returns, every fetch started by fetch_batch
\* returns (or raises, for a URL urlparse rejects) and fetch_batch returns:
\* no task waits forever for the slot of its domain or for the process-wide
\* slot, and at the end every slot is free again.
C34_EveryFetchReturns ==
  /\ \A t \in Tasks :
       <>(\/ pc[t] = "done" /\ result[t] # NoResult
          \/ pc[t] = "raised" /\ urls[t] = BadUrl)
  /\ <>(Len(out) = NumTasks)
  /\ <>[](/\ globalFree = MaxConcurrentTotal
          /\ \A d \in DOMAIN semaphores : semaphores[d] = MaxPerDomain)

\* C34 case: all the fetches of a batch on one domain have returned after
\* each of them held the slot of the domain and the process-wide slot
C34_Witness ==
  /\ \A t \in Tasks :
       /\ urls[t].domain = "a"
       /\ pc[t] = "done" /\ Len(gets[t]) >= 1
       /\ acquired[t] = 1 /\ released[t] = 1
  /\ NumTasks > MaxPerDomain /\ NumTasks > MaxConcurrentTotal
  /\ globalFree = MaxConcurrentTotal
  /\ semaphores["a"] = MaxPerDomain

(***************************************************************************)
(* Properties of runs, continued                                           *)
(***************************************************************************)
\* C35: every URL passed to the fetch client at depth 0 of a unit has a
\* domain (the host without "www.", as the exclusion entries are stored)
\* that is not excluded, is not a Deduplicator URL duplicate and is not
\* marked fetched in the Checkpoint; a unit with no surviving candidate has
\* no fetch.
C35_Depth0Filtered ==
  /\ (rpc = "fetch" /\ current_depth = 0) =>
       /\ urls_to_fetch # << >>
       /\ \A u \in Range(urls_to_fetch) :
            /\ DomainClean(ExtractDomain(u)) \notin exclusions
            /\ ~IsDuplicateUrl(dedup, u)
            /\ ~IsUrlFetched(ckpt, u)

\* the outcome fetch(urls[t]) returned, read from what the task did: the
\* robots refusal, or the status of its last response (0 when reading the
\* body failed)
OutcomeOf(t) ==
  IF pc[t] = "raised" THEN TransportError
  ELSE IF allowedRes[t] = "no" THEN RobotsDenied
  ELSE result[t]

\* C36: whatever the order in which the tasks complete, fetch_batch(urls)
\* returns exactly one outcome per input URL and the outcome at position i
\* is the outcome of urls[i]; a fetch that raised has an error outcome at its
\* own position.
C36_BatchInOrder ==
  out # << >> =>
    /\ Len(out) = NumTasks
    /\ \A t \in Tasks :
         /\ out[t] = OutcomeOf(t)
         /\ pc[t] = "raised" => out[t].status = 0 /\ out[t].error # ""
         /\ pc[t] = "done" /\ resps[t] # << >> /\ ~bodyFail[t] =>
              out[t].status = resps[t][Len(resps[t])]
         /\ out[t].content_bytes = "bytes" => IsPdf(urls[t])
         /\ out[t].html = "text" => ~IsPdf(urls[t])

\* fetch_batch returned: the first fetch raised, the second, which completed
\* while the list was being gathered, has its 200 outcome at position 2
C36_Witness ==
  /\ out # << >>
  /\ pc[1] = "raised"
  /\ out[1].error # ""
  /\ out[2].status = 200
  /\ out[2].content_bytes = "bytes"

\* the number of frontier levels fetched so far for the current unit, while
\* the outcomes of a level are processed: depth 0 is the first level
LevelsFetched == current_depth + 1

ContentId(record) == HashContent(record.full_text)

C40_CounterTracksRatelimits ==
  [][searches' = searches + 1 =>
       /\ (last_search'.raw = "empty" /\ ~last_search'.hit) =>
            consecutive_ratelimits' = consecutive_ratelimits
       /\ (last_search'.raw = "empty" /\ last_search'.hit) =>
            consecutive_ratelimits' = consecutive_ratelimits + 1
       /\ last_search'.raw = "results" => consecutive_ratelimits' = 0]_vars

====
